---------------------------- MODULE Spec2Model ----------------------------
(***************************************************************************)
(* A model of ratatui-termina: the TerminaBackend (draw, the style diff,   *)
(* the colour conversions), translated from ratatui-termina/src/lib.rs.    *)
(*                                                                         *)
(* Seven specifications share the module:                                   *)
(*   SpecColor  the colour conversions into_termina / from_termina;        *)
(*   SpecDiff   diff_modifiers and a terminal that applies its codes;      *)
(*   Spec       the backend's draw, one cell at a time, over a wide range  *)
(*              of cells, and the terminal that receives what it writes;   *)
(*   SpecIO     the operations of the backend (draw, flush, the cursor and *)
(*              clear operations, the scrolling regions, the cursor        *)
(*              query), the application's reads, the failures of the two   *)
(*              channels and the terminal's input;                         *)
(*   SpecChan   the same operations over two buffered channels;            *)
(*   SpecDemo   the main loop of the demo application (run_app of          *)
(*              examples/apps/demo/src/termina.rs);                        *)
(*   SpecWidget the custom-widget example (run and its two event handlers, *)
(*              examples/apps/custom-widget/src/main.rs).                  *)
(***************************************************************************)
EXTENDS Integers, Sequences, FiniteSets, TLC

VARIABLES
    \* ---- SpecColor: one conversion in progress
    cdir,      \* "into": Color -> ColorSpec -> Color;  "from": ColorSpec -> Color
    cstage,    \* "start", "native" (into_termina done), "done" (from_termina done)
    cin,       \* the value the conversion starts from
    cnative,   \* the ColorSpec between the two conversions
    cout,      \* the Color that from_termina returned
    \* ---- SpecDiff: one call of diff_modifiers and the terminal it is sent to
    dstage,    \* "start", "diffed" (diff_modifiers returned), "applied"
    dfrom,     \* the Modifier the terminal has in effect (argument `from`)
    dto,       \* the Modifier wanted (argument `to`)
    dcodes,    \* the SgrModifiers that diff_modifiers returned
    dterm,     \* the attributes in effect on the terminal
    \* ---- Spec: the backend
    overflow_checks, \* the build: TRUE when u16 overflow panics (debug profile),
                     \* FALSE when it wraps (release profile)
    content,   \* the cells a content iterator handed to draw can yield
    pc,        \* "idle" (no call in progress), "draw" (inside the loop of draw),
               \* "gcp_flush", "gcp_read" (inside get_cursor_position: before
               \* the flush, inside terminal.read), "panicked" (the process aborted)
    call,      \* the name of the call in progress, or of the last call
    args,      \* its arguments
    result,    \* what the last call returned (None while a call is in progress)
    raised,    \* the io::Error a channel raised during this call, None if none
    drawn,     \* TRUE once a call of draw has returned Ok
    fg,        \* draw's local `fg`
    bg,        \* draw's local `bg`
    underline_color, \* draw's local `underline_color`
    modifier,  \* draw's local `modifier`
    last_pos,  \* draw's local `last_pos`
    cells,     \* the cells the content iterator has yielded in this call of draw
    out,       \* what this call has done on its channels, in order: the commands
               \* written, the flushes, the events read
    term,      \* the style in effect on the terminal once it has read what was written
    margins,   \* the scroll margins of the terminal once it has read what was written
    input,     \* the events waiting on the terminal's input channel, oldest first
    closed,    \* TRUE once the input channel has ended
    stream,    \* the events that were waiting when this call began or arrived since
    discarded, \* the events this call took off the input channel and dropped
    buffered,  \* TRUE when the two output channels hold what is written to them
               \* until they are flushed, FALSE when they pass it on at once
    pending,   \* the channels that hold bytes written and not yet passed on, in
               \* the order the bytes were written (oldest first)
    overtaken, \* TRUE when the last call passed bytes on to the terminal while
               \* older bytes were still held in the other channel
    rpc,       \* "idle", or "read": a read of the application on
               \* backend.terminal() is in progress
    \* ---- SpecDemo: run_app
    lpc,       \* where run_app is: "draw" (line 74), "poll" (inside the poll of
               \* lines 78-82), "read" (inside the read of line 88), "returned"
    tick_rate, \* the argument `tick_rate`
    last_tick, \* the local `last_tick` (an instant of the clock)
    timeout,   \* the local `timeout`
    should_quit, \* app.should_quit
    now,       \* the clock
    waited,    \* the time the poll in progress has waited
    queue,     \* the events waiting on the terminal's input, oldest first
    did,       \* what the loop did last: "start", "draw", "poll", "tick", "event"
    ticked_at, \* the instant of the last call of app.on_tick (of the start if none)
    returned,  \* what run_app returned, None while it runs
    \* ---- SpecWidget: run of the custom-widget example
    wpc,       \* where run is: "draw" (line 150), "poll" (151), "read" (154),
               \* "returned"
    selected_button, \* the local `selected_button`
    button_states,   \* the local `button_states`, indexed from 0
    wevent,    \* the event that event::read() returned last, None before the first
    wreturned  \* what run returned, None while it runs

colorVars == <<cdir, cstage, cin, cnative, cout>>
diffVars == <<dstage, dfrom, dto, dcodes, dterm>>
drawVars == <<fg, bg, underline_color, modifier, last_pos>>
callVars == <<call, args, result, raised>>
inputVars == <<input, closed, stream, discarded>>
channelVars == <<pending, overtaken>>
backendVars == <<overflow_checks, content, pc, drawn, drawVars, cells, out, term, margins,
                 callVars, inputVars, buffered, channelVars, rpc>>

demoVars == <<lpc, tick_rate, last_tick, timeout, should_quit, now, waited, queue, did,
              ticked_at, returned>>

widgetVars == <<wpc, selected_button, button_states, wevent, wreturned>>

vars == <<colorVars, diffVars, backendVars, demoVars, widgetVars>>

(***************************************************************************)
(* ratatui_core::style::Color, as the match arms of into_termina see it.   *)
(***************************************************************************)
NamedColors ==
    {"Black", "Red", "Green", "Yellow", "Blue", "Magenta", "Cyan", "Gray",
     "DarkGray", "LightRed", "LightGreen", "LightBlue", "LightYellow",
     "LightMagenta", "LightCyan", "White"}

Reset == [tag |-> "Reset"]
Named(n) == [tag |-> n]
Indexed(i) == [tag |-> "Indexed", i |-> i]
Rgb(r, g, b) == [tag |-> "Rgb", r |-> r, g |-> g, b |-> b]

(***************************************************************************)
(* termina::style::ColorSpec: Reset, PaletteIndex(u8), TrueColor(RgbaColor)*)
(* are its variants (the match of from_termina is exhaustive with exactly  *)
(* these three shapes); the sixteen upper-case names are constants of the  *)
(* type, the palette entries 0..15 of the terminal.                        *)
(***************************************************************************)
NativeReset == [tag |-> "Reset"]
PaletteIndex(i) == [tag |-> "PaletteIndex", i |-> i]
TrueColor(r, g, b, a) == [tag |-> "TrueColor", red |-> r, green |-> g, blue |-> b, alpha |-> a]

ColorSpecConst ==
    [BLACK |-> PaletteIndex(0), RED |-> PaletteIndex(1), GREEN |-> PaletteIndex(2),
     YELLOW |-> PaletteIndex(3), BLUE |-> PaletteIndex(4), MAGENTA |-> PaletteIndex(5),
     CYAN |-> PaletteIndex(6), WHITE |-> PaletteIndex(7),
     BRIGHT_BLACK |-> PaletteIndex(8), BRIGHT_RED |-> PaletteIndex(9),
     BRIGHT_GREEN |-> PaletteIndex(10), BRIGHT_YELLOW |-> PaletteIndex(11),
     BRIGHT_BLUE |-> PaletteIndex(12), BRIGHT_MAGENTA |-> PaletteIndex(13),
     BRIGHT_CYAN |-> PaletteIndex(14), BRIGHT_WHITE |-> PaletteIndex(15)]

\* RgbColor { red, green, blue }.into(): an RgbaColor, fully opaque.
RgbColorInto(r, g, b) == TrueColor(r, g, b, 255)

\* The native constant each named colour is paired with (lib.rs 468-483).
NamedToConst(n) ==
    CASE n = "Black" -> "BLACK"
      [] n = "Red" -> "RED"
      [] n = "Green" -> "GREEN"
      [] n = "Yellow" -> "YELLOW"
      [] n = "Blue" -> "BLUE"
      [] n = "Magenta" -> "MAGENTA"
      [] n = "Cyan" -> "CYAN"
      [] n = "Gray" -> "WHITE"
      [] n = "DarkGray" -> "BRIGHT_BLACK"
      [] n = "LightRed" -> "BRIGHT_RED"
      [] n = "LightGreen" -> "BRIGHT_GREEN"
      [] n = "LightBlue" -> "BRIGHT_BLUE"
      [] n = "LightYellow" -> "BRIGHT_YELLOW"
      [] n = "LightMagenta" -> "BRIGHT_MAGENTA"
      [] n = "LightCyan" -> "BRIGHT_CYAN"
      [] n = "White" -> "BRIGHT_WHITE"

\* IntoTermina with the green and blue channels of an Rgb exchanged.
IntoTermina_ChannelsSwapped(c) ==
    CASE c.tag = "Reset" -> NativeReset
      [] c.tag = "Indexed" -> PaletteIndex(c.i)
      [] c.tag = "Rgb" -> RgbColorInto(c.r, c.b, c.g)
      [] OTHER -> ColorSpecConst[NamedToConst(c.tag)]

\* impl IntoTermina<ColorSpec> for Color
IntoTermina(c) ==
    CASE c.tag = "Reset" -> NativeReset
      [] c.tag = "Indexed" -> PaletteIndex(c.i)
      [] c.tag = "Rgb" -> RgbColorInto(c.r, c.g, c.b)
      [] OTHER -> ColorSpecConst[NamedToConst(c.tag)]

\* The arms of from_termina that name a constant, in the order of the match
\* (lib.rs 501-516): the first arm whose constant equals the value is taken.
FromArms ==
    << <<"BLACK", "Black">>, <<"RED", "Red">>, <<"GREEN", "Green">>,
       <<"YELLOW", "Yellow">>, <<"BLUE", "Blue">>, <<"MAGENTA", "Magenta">>,
       <<"CYAN", "Cyan">>, <<"WHITE", "Gray">>, <<"BRIGHT_BLACK", "DarkGray">>,
       <<"BRIGHT_RED", "LightRed">>, <<"BRIGHT_GREEN", "LightGreen">>,
       <<"BRIGHT_BLUE", "LightBlue">>, <<"BRIGHT_YELLOW", "LightYellow">>,
       <<"BRIGHT_MAGENTA", "LightMagenta">>, <<"BRIGHT_CYAN", "LightCyan">>,
       <<"BRIGHT_WHITE", "White">> >>

\* The arms that match value v (indices into FromArms).
MatchingArms(v) == {k \in 1..Len(FromArms) : ColorSpecConst[FromArms[k][1]] = v}

Min(S) == CHOOSE m \in S : \A k \in S : m <= k

\* FromTermina with the WHITE and BRIGHT_WHITE arms exchanged (WHITE read as
\* White, BRIGHT_WHITE as Gray).
FromTermina_WhiteSwapped(v) ==
    IF v.tag = "Reset" THEN Reset
    ELSE IF v = ColorSpecConst.WHITE THEN Named("White")
    ELSE IF v = ColorSpecConst.BRIGHT_WHITE THEN Named("Gray")
    ELSE IF MatchingArms(v) # {} THEN Named(FromArms[Min(MatchingArms(v))][2])
    ELSE IF v.tag = "TrueColor" THEN Rgb(v.red, v.green, v.blue)
    ELSE Indexed(v.i)

\* impl FromTermina<ColorSpec> for Color
FromTermina(v) ==
    IF v.tag = "Reset" THEN Reset
    ELSE IF MatchingArms(v) # {} THEN Named(FromArms[Min(MatchingArms(v))][2])
    ELSE IF v.tag = "TrueColor" THEN Rgb(v.red, v.green, v.blue)
    ELSE Indexed(v.i)


(***************************************************************************)
(* ratatui_core::style::Modifier (a bit set) and the bits of termina's     *)
(* SgrModifiers that diff_modifiers uses.                                  *)
(***************************************************************************)
Modifier ==
    {"BOLD", "DIM", "ITALIC", "UNDERLINED", "SLOW_BLINK", "RAPID_BLINK",
     "REVERSED", "HIDDEN", "CROSSED_OUT"}

\* bits(cond, code): `if cond { modifiers |= code }`
Bit(cond, code) == IF cond THEN {code} ELSE {}

\* diff_modifiers clearing everything with one RESET when a bit is removed,
\* and setting every bit of `to` again.
diff_modifiers_ResetThenSet(from, to) ==
    LET removed == from \ to
        added == IF removed = {} THEN to \ from ELSE to
    IN  Bit(removed # {}, "RESET")
        \cup Bit("REVERSED" \in added, "REVERSE")
        \cup Bit("BOLD" \in added, "INTENSITY_BOLD")
        \cup Bit("DIM" \in added, "INTENSITY_DIM")
        \cup Bit("ITALIC" \in added, "ITALIC")
        \cup Bit("CROSSED_OUT" \in added, "STRIKE_THROUGH")
        \cup Bit("HIDDEN" \in added, "INVISIBLE")
        \cup Bit("SLOW_BLINK" \in added, "BLINK_SLOW")
        \cup Bit("RAPID_BLINK" \in added, "BLINK_RAPID")

\* A variant that turns on every attribute of `to`, whether or not `from`
\* had it already.
diff_modifiers_AllOfTarget(from, to) ==
    LET removed == from \ to
        added == to
    IN  Bit("REVERSED" \in removed, "NO_REVERSE")
        \cup Bit("BOLD" \in removed /\ "DIM" \notin to, "INTENSITY_NORMAL")
        \cup Bit("DIM" \in removed, "INTENSITY_NORMAL")
        \cup Bit("ITALIC" \in removed, "NO_ITALIC")
        \cup Bit("CROSSED_OUT" \in removed, "NO_STRIKE_THROUGH")
        \cup Bit("HIDDEN" \in removed, "NO_INVISIBLE")
        \cup Bit("SLOW_BLINK" \in removed \/ "RAPID_BLINK" \in removed, "BLINK_NONE")
        \cup Bit("REVERSED" \in added, "REVERSE")
        \cup Bit("BOLD" \in added, "INTENSITY_BOLD")
        \cup Bit("DIM" \in added, "INTENSITY_DIM")
        \cup Bit("ITALIC" \in added, "ITALIC")
        \cup Bit("CROSSED_OUT" \in added, "STRIKE_THROUGH")
        \cup Bit("HIDDEN" \in added, "INVISIBLE")
        \cup Bit("SLOW_BLINK" \in added, "BLINK_SLOW")
        \cup Bit("RAPID_BLINK" \in added, "BLINK_RAPID")

\* fn diff_modifiers(from: Modifier, to: Modifier) -> SgrModifiers
diff_modifiers(from, to) ==
    LET removed == from \ to
        added == to \ from
    IN  Bit("REVERSED" \in removed, "NO_REVERSE")
        \cup Bit("BOLD" \in removed /\ "DIM" \notin to, "INTENSITY_NORMAL")
        \cup Bit("DIM" \in removed, "INTENSITY_NORMAL")
        \cup Bit("ITALIC" \in removed, "NO_ITALIC")
        \cup Bit("CROSSED_OUT" \in removed, "NO_STRIKE_THROUGH")
        \cup Bit("HIDDEN" \in removed, "NO_INVISIBLE")
        \cup Bit("SLOW_BLINK" \in removed \/ "RAPID_BLINK" \in removed, "BLINK_NONE")
        \cup Bit("REVERSED" \in added, "REVERSE")
        \cup Bit("BOLD" \in added, "INTENSITY_BOLD")
        \cup Bit("DIM" \in added, "INTENSITY_DIM")
        \cup Bit("ITALIC" \in added, "ITALIC")
        \cup Bit("CROSSED_OUT" \in added, "STRIKE_THROUGH")
        \cup Bit("HIDDEN" \in added, "INVISIBLE")
        \cup Bit("SLOW_BLINK" \in added, "BLINK_SLOW")
        \cup Bit("RAPID_BLINK" \in added, "BLINK_RAPID")

(***************************************************************************)
(* The terminal's side of the attribute codes.  A turn-off code clears the *)
(* attributes of its family ("intensity normal" both bold and dim, "blink  *)
(* none" both blink kinds), a turn-on code sets its attribute.  The codes  *)
(* of one command take effect turn-off codes first.                        *)
(***************************************************************************)
Cleared(codes) ==
    Bit("NO_REVERSE" \in codes, "REVERSED")
    \cup (IF "INTENSITY_NORMAL" \in codes THEN {"BOLD", "DIM"} ELSE {})
    \cup Bit("NO_ITALIC" \in codes, "ITALIC")
    \cup Bit("NO_UNDERLINE" \in codes, "UNDERLINED")
    \cup Bit("NO_STRIKE_THROUGH" \in codes, "CROSSED_OUT")
    \cup Bit("NO_INVISIBLE" \in codes, "HIDDEN")
    \cup (IF "BLINK_NONE" \in codes THEN {"SLOW_BLINK", "RAPID_BLINK"} ELSE {})

Set(codes) ==
    Bit("REVERSE" \in codes, "REVERSED")
    \cup Bit("INTENSITY_BOLD" \in codes, "BOLD")
    \cup Bit("INTENSITY_DIM" \in codes, "DIM")
    \cup Bit("ITALIC" \in codes, "ITALIC")
    \cup Bit("UNDERLINE_SINGLE" \in codes, "UNDERLINED")
    \cup Bit("STRIKE_THROUGH" \in codes, "CROSSED_OUT")
    \cup Bit("INVISIBLE" \in codes, "HIDDEN")
    \cup Bit("BLINK_SLOW" \in codes, "SLOW_BLINK")
    \cup Bit("BLINK_RAPID" \in codes, "RAPID_BLINK")

ApplyModifiers(attrs, codes) == (attrs \ Cleared(codes)) \cup Set(codes)

\* The codes that turn attributes off, and those that turn one on.
OffCodes ==
    {"NO_REVERSE", "INTENSITY_NORMAL", "NO_ITALIC", "NO_UNDERLINE", "NO_STRIKE_THROUGH",
     "NO_INVISIBLE", "BLINK_NONE"}
OnCodes ==
    {"REVERSE", "INTENSITY_BOLD", "INTENSITY_DIM", "ITALIC", "UNDERLINE_SINGLE",
     "STRIKE_THROUGH", "INVISIBLE", "BLINK_SLOW", "BLINK_RAPID"}

\* The order in which the encoder of the attributes command writes the codes
\* of a set: the turn-off codes, then the turn-on codes.  RESET, a bit that
\* diff_modifiers never sets, is given the last place.
CodeOrder ==
    << "NO_REVERSE", "INTENSITY_NORMAL", "NO_ITALIC", "NO_UNDERLINE", "NO_STRIKE_THROUGH",
       "NO_INVISIBLE", "BLINK_NONE",
       "REVERSE", "INTENSITY_BOLD", "INTENSITY_DIM", "ITALIC", "UNDERLINE_SINGLE",
       "STRIKE_THROUGH", "INVISIBLE", "BLINK_SLOW", "BLINK_RAPID", "RESET" >>

\* The codes of the set `codes` as they are written, in order.
InCodes(codes, c) == c \in codes
SgrCodeOrder(codes) == SelectSeq(CodeOrder, LAMBDA c : InCodes(codes, c))

(***************************************************************************)
(* SpecDiff: diff_modifiers on every pair of attribute sets, its result    *)
(* sent to a terminal whose attributes are `from`.                         *)
(***************************************************************************)
OnlyDiff == UNCHANGED <<colorVars, backendVars, demoVars, widgetVars>>

DiffInit ==
    /\ dstage = "start"
    /\ dfrom \in SUBSET Modifier
    /\ dto \in SUBSET Modifier
    /\ dcodes = {}
    /\ dterm = dfrom

CallDiffModifiers ==
    /\ dstage = "start"
    /\ dcodes' = diff_modifiers(dfrom, dto)
    /\ dstage' = "diffed"
    /\ UNCHANGED <<dfrom, dto, dterm>>
    /\ OnlyDiff

TerminalApplies ==
    /\ dstage = "diffed"
    /\ dterm' = ApplyModifiers(dterm, dcodes)
    /\ dstage' = "applied"
    /\ UNCHANGED <<dfrom, dto, dcodes>>
    /\ OnlyDiff

DiffNext == CallDiffModifiers \/ TerminalApplies


(***************************************************************************)
(* The backend.  A command written to the writer is a record; `cell` is    *)
(* the index (in this call of draw) of the cell it was written for, 0 for  *)
(* the final reset.                                                        *)
(***************************************************************************)
None == [tag |-> "None"]
Position(x, y) == [x |-> x, y |-> y]

U16Max == 65535

\* u16 `n + 1` where it wraps (overflow checks off)
WrappingInc(n) == (n + 1) % (U16Max + 1)

\* OneBased::from_zero_based(n): n + 1 in u16
from_zero_based(n) == WrappingInc(n)

CursorPosition(col, line, k) == [cmd |-> "Position", col |-> col, line |-> line, cell |-> k]
SgrUnderlineColor(c, k) == [cmd |-> "UnderlineColor", color |-> c, cell |-> k]
SgrAttributes(a, k) ==
    [cmd |-> "Attributes", foreground |-> a.foreground, background |-> a.background,
     modifiers |-> a.modifiers, cell |-> k]
Text(sym, k) == [cmd |-> "Text", text |-> sym, cell |-> k]
SgrReset == [cmd |-> "Reset", cell |-> 0]

\* SgrAttributes::default() and SgrAttributes::is_empty()
DefaultAttributes == [foreground |-> None, background |-> None, modifiers |-> {}]
IsEmptyAttributes(a) == a.foreground = None /\ a.background = None /\ a.modifiers = {}

\* The terminal: the style it has in effect, and what one command does to it.
NeutralTerm == [fg |-> NativeReset, bg |-> NativeReset, underline |-> NativeReset, attrs |-> {}]

TermApply(t, c) ==
    CASE c.cmd = "Reset" -> NeutralTerm
      [] c.cmd = "UnderlineColor" -> [t EXCEPT !.underline = c.color]
      [] c.cmd = "Attributes" ->
            [t EXCEPT !.fg = IF c.foreground = None THEN @ ELSE c.foreground,
                      !.bg = IF c.background = None THEN @ ELSE c.background,
                      !.attrs = ApplyModifiers(@, c.modifiers)]
      [] OTHER -> t

RECURSIVE TermApplyAll(_, _)
TermApplyAll(t, cmds) ==
    IF cmds = <<>> THEN t ELSE TermApplyAll(TermApply(t, Head(cmds)), Tail(cmds))

\* The feature "underline-color" of the build (lib.rs 254, 285).
UnderlineColorFeature == TRUE

(***************************************************************************)
(* draw: the test of line 260, `x == p.x + 1 && y == p.y`.  `p.x + 1` is   *)
(* u16 arithmetic, evaluated whenever last_pos is Some.                    *)
(***************************************************************************)
IsNextOnRow(lp, x, y) == lp # None /\ x = WrappingInc(lp.x) /\ y = lp.y

\* The u16 additions one iteration of the loop performs that overflow:
\* `p.x + 1` of line 260, and the `n + 1` of from_zero_based (lines 265, 266)
\* when the position command is written.
IterationOverflows(lp, cell) ==
    \/ lp # None /\ lp.x = U16Max
    \/ ~IsNextOnRow(lp, cell.x, cell.y) /\ (cell.x = U16Max \/ cell.y = U16Max)

\* from_zero_based is handed u16::MAX: n + 1 wraps to 0 where overflow is not
\* checked, a value OneBased must not hold.
MakesZeroOneBased(lp, cell) ==
    ~IsNextOnRow(lp, cell.x, cell.y) /\ (cell.x = U16Max \/ cell.y = U16Max)

\* Lines 272-284: the attributes of the combined command for one cell.
CellAttributes(cell, curFg, curBg, curMod) ==
    [foreground |-> IF cell.fg # curFg THEN IntoTermina(cell.fg) ELSE None,
     background |-> IF cell.bg # curBg THEN IntoTermina(cell.bg) ELSE None,
     modifiers |-> IF cell.modifier # curMod THEN diff_modifiers(curMod, cell.modifier)
                   ELSE {}]

\* CellCommands with the glyph written before the style commands.
CellCommands_GlyphBeforeStyle(cell, k, lp, curFg, curBg, curUl, curMod) ==
    LET attributes == CellAttributes(cell, curFg, curBg, curMod)
    IN  (IF ~IsNextOnRow(lp, cell.x, cell.y)
            THEN <<CursorPosition(from_zero_based(cell.x), from_zero_based(cell.y), k)>>
            ELSE <<>>)
        \o <<Text(cell.symbol, k)>>
        \o (IF UnderlineColorFeature /\ cell.underline_color # curUl
            THEN <<SgrUnderlineColor(IntoTermina(cell.underline_color), k)>>
            ELSE <<>>)
        \o (IF ~IsEmptyAttributes(attributes)
            THEN <<SgrAttributes(attributes, k)>>
            ELSE <<>>)

\* Lines 260-305: what one iteration writes for `cell`, the k-th of the call.
CellCommands(cell, k, lp, curFg, curBg, curUl, curMod) ==
    LET attributes == CellAttributes(cell, curFg, curBg, curMod)
    IN  (IF ~IsNextOnRow(lp, cell.x, cell.y)
            THEN <<CursorPosition(from_zero_based(cell.x), from_zero_based(cell.y), k)>>
            ELSE <<>>)
        \o (IF UnderlineColorFeature /\ cell.underline_color # curUl
            THEN <<SgrUnderlineColor(IntoTermina(cell.underline_color), k)>>
            ELSE <<>>)
        \o (IF ~IsEmptyAttributes(attributes)
            THEN <<SgrAttributes(attributes, k)>>
            ELSE <<>>)
        \o <<Text(cell.symbol, k)>>

(***************************************************************************)
(* The cells draw is given.                                                *)
(***************************************************************************)
MaxCells == 2

CellPositions ==
    {Position(0, 0), Position(1, 0), Position(1, 1),
     Position(U16Max - 1, 0), Position(U16Max, 0)}

Style(f, b, u, m) == [fg |-> f, bg |-> b, underline_color |-> u, modifier |-> m]

CellContents ==
    {[symbol |-> "A", style |-> Style(Reset, Reset, Reset, {})],
     [symbol |-> "A", style |-> Style(Named("Red"), Reset, Reset, {})],
     [symbol |-> "B", style |-> Style(Named("Red"), Reset, Reset, {})],
     [symbol |-> "B", style |-> Style(Named("Blue"), Reset, Reset, {})],
     [symbol |-> "B", style |-> Style(Named("Blue"), Named("Blue"), Named("Green"), {"BOLD"})],
     [symbol |-> "A", style |-> Style(Reset, Reset, Reset, {"UNDERLINED"})]}

Cells ==
    {[x |-> p.x, y |-> p.y, symbol |-> c.symbol, fg |-> c.style.fg, bg |-> c.style.bg,
      underline_color |-> c.style.underline_color, modifier |-> c.style.modifier] :
        p \in CellPositions, c \in CellContents}

\* A step of a call of the backend: the kind of its channels is fixed, the
\* application is not inside a read of its own, the other specifications'
\* variables stay.
OnlyBackend == UNCHANGED <<colorVars, diffVars, demoVars, widgetVars, buffered, rpc>>

\* What a call returns: io::Result<()>, io::Result<Position>.
Ok == [tag |-> "Ok"]
OkPosition(p) == [tag |-> "Ok", position |-> p]
Err(e) == [tag |-> "Err", error |-> e]

\* The margins the scrolling operations leave (lib.rs 421-424, 438-441), which
\* are the margins of a terminal nobody has set margins on: the whole screen.
FullScreen == [top |-> from_zero_based(0), bottom |-> from_zero_based(U16Max - 1)]

\* The two output channels (lib.rs 134-138: `terminal: PlatformTerminal`,
\* `writer: W`) are two handles with a buffer each.  A buffered channel holds
\* what is written to it until it is flushed; `pending` keeps, for the bytes
\* held, which channel holds them, oldest first, runs of one channel merged.
MaxPending == 3

\* A call that may leave bytes in a channel begins only while `pending` has room.
RoomToWrite == Len(pending) < MaxPending

\* `pending` after a write to chan.
Wrote(p, chan) ==
    IF ~buffered \/ (p # <<>> /\ p[Len(p)] = chan) THEN p ELSE Append(p, chan)

\* `pending` after a flush of chan: everything chan held has been passed on.
Flushed(p, chan) ==
    LET rest == SelectSeq(p, LAMBDA c : c # chan)
    IN  IF rest = <<>> THEN <<>> ELSE <<rest[1]>>

\* A flush of chan passes its bytes on while the other channel still holds
\* bytes that were written before some of them.
Overtakes(p, chan) ==
    \E i, j \in 1..Len(p) : i < j /\ p[i] # chan /\ p[j] = chan

\* A backend just constructed (lib.rs 175-177), no call made yet, in front of a
\* terminal in its neutral state with nothing typed.
NewBackend ==
    /\ pc = "idle"
    /\ drawn = FALSE
    /\ fg = Reset /\ bg = Reset /\ underline_color = Reset /\ modifier = {}
    /\ last_pos = None
    /\ cells = <<>>
    /\ out = <<>>
    /\ term = NeutralTerm
    /\ margins = FullScreen
    /\ call = "none" /\ args = None /\ result = None /\ raised = None
    /\ input = <<>> /\ closed = FALSE /\ stream = <<>> /\ discarded = <<>>
    /\ pending = <<>> /\ overtaken = FALSE
    /\ rpc = "idle"

BackendInit ==
    /\ overflow_checks \in BOOLEAN
    /\ content = Cells
    /\ buffered = FALSE
    /\ NewBackend

\* CallBegins for a backend whose methods took `&self`: a call begins
\* whether or not a borrow of backend.terminal() is held.
CallBegins_SharedBorrow(name, a) ==
    /\ pc = "idle"
    /\ call' = name
    /\ args' = a
    /\ stream' = input
    /\ discarded' = <<>>
    /\ UNCHANGED <<overflow_checks, content, drawn, input, closed>>

\* A call begins: it has returned nothing and no channel has failed yet.
\* Every method of the backend takes `&mut self`, so no call begins while
\* another is in progress or while a borrow of backend.terminal() is held.
CallBegins(name, a) ==
    /\ pc = "idle"
    /\ rpc = "idle"
    /\ call' = name
    /\ args' = a
    /\ stream' = input
    /\ discarded' = <<>>
    /\ UNCHANGED <<overflow_checks, content, drawn, input, closed>>

\* DrawBegin with fg, bg, underline_color, modifier and last_pos kept from the
\* call before (as fields of the backend would be) instead of initialised.
DrawBegin_KeepsStyleState ==
    /\ CallBegins("draw", None)
    /\ RoomToWrite
    /\ overtaken' = FALSE
    /\ UNCHANGED pending
    /\ result' = None /\ raised' = None
    /\ pc' = "draw"
    /\ cells' = <<>>
    /\ out' = <<>>
    /\ UNCHANGED <<term, margins, fg, bg, underline_color, modifier, last_pos>>
    /\ OnlyBackend

\* Lines 252-257: a call of draw begins; its locals are initialised.
DrawBegin ==
    /\ CallBegins("draw", None)
    /\ RoomToWrite
    /\ overtaken' = FALSE
    /\ UNCHANGED pending
    /\ result' = None /\ raised' = None
    /\ pc' = "draw"
    /\ fg' = Reset /\ bg' = Reset /\ underline_color' = Reset /\ modifier' = {}
    /\ last_pos' = None
    /\ cells' = <<>>
    /\ out' = <<>>
    /\ UNCHANGED <<term, margins>>
    /\ OnlyBackend

\* Lines 258-306: one iteration of the loop, for the next cell of the content.
DrawCell ==
    /\ pc = "draw"
    /\ Len(cells) < MaxCells
    /\ \E cell \in content :
        LET k == Len(cells) + 1
            written == CellCommands(cell, k, last_pos, fg, bg, underline_color, modifier)
        IN  /\ ~(overflow_checks /\ IterationOverflows(last_pos, cell))
            /\ cells' = Append(cells, cell)
            /\ out' = out \o written
            /\ pending' = Wrote(pending, "writer")
            /\ term' = TermApplyAll(term, written)
            /\ last_pos' = Position(cell.x, cell.y)
            /\ fg' = cell.fg
            /\ bg' = cell.bg
            /\ modifier' = cell.modifier
            /\ underline_color' = IF UnderlineColorFeature THEN cell.underline_color
                                  ELSE underline_color
    /\ UNCHANGED <<overflow_checks, content, pc, drawn, margins, callVars, inputVars,
                   overtaken>>
    /\ OnlyBackend

\* An iteration that aborts before it writes anything: a u16 addition overflows
\* in a build that checks overflow, or from_zero_based makes a OneBased of 0 in
\* a build that does not (undefined: aborting is one of the outcomes, going on
\* with the wrapped value, as DrawCell does, the other).
DrawCellPanics ==
    /\ pc = "draw"
    /\ Len(cells) < MaxCells
    /\ \E cell \in content :
        /\ \/ overflow_checks /\ IterationOverflows(last_pos, cell)
           \/ ~overflow_checks /\ MakesZeroOneBased(last_pos, cell)
        /\ cells' = Append(cells, cell)
    /\ pc' = "panicked"
    /\ UNCHANGED <<overflow_checks, content, drawn, drawVars, out, term, margins,
                   callVars, inputVars, channelVars>>
    /\ OnlyBackend

\* DrawEnd with the reset written only when the call drew a cell.
DrawEnd_NoResetWhenEmpty ==
    /\ pc = "draw"
    /\ out' = IF cells = <<>> THEN out ELSE Append(out, SgrReset)
    /\ pending' = IF cells = <<>> THEN pending ELSE Wrote(pending, "writer")
    /\ term' = IF cells = <<>> THEN term ELSE TermApply(term, SgrReset)
    /\ pc' = "idle"
    /\ drawn' = TRUE
    /\ result' = Ok
    /\ UNCHANGED <<overflow_checks, content, drawVars, cells, margins, call, args, raised,
                   inputVars, overtaken>>
    /\ OnlyBackend

\* DrawEnd flushing the writer after the reset.
DrawEnd_ThenFlushes ==
    /\ pc = "draw"
    /\ out' = out \o <<SgrReset, [cmd |-> "Flush", chan |-> "writer", cell |-> 0]>>
    /\ pending' = Flushed(Wrote(pending, "writer"), "writer")
    /\ term' = TermApply(term, SgrReset)
    /\ pc' = "idle"
    /\ drawn' = TRUE
    /\ result' = Ok
    /\ UNCHANGED <<overflow_checks, content, drawVars, cells, margins, call, args, raised,
                   inputVars, overtaken>>
    /\ OnlyBackend

\* Line 308: the content is exhausted; draw writes the reset and returns Ok.
DrawEnd ==
    /\ pc = "draw"
    /\ out' = Append(out, SgrReset)
    /\ pending' = Wrote(pending, "writer")
    /\ term' = TermApply(term, SgrReset)
    /\ pc' = "idle"
    /\ drawn' = TRUE
    /\ result' = Ok
    /\ UNCHANGED <<overflow_checks, content, drawVars, cells, margins, call, args, raised,
                   inputVars, overtaken>>
    /\ OnlyBackend

BackendNext == DrawBegin \/ DrawCell \/ DrawCellPanics \/ DrawEnd

(***************************************************************************)
(* The two channels of the backend and their failures.  `writer` is the W  *)
(* of TerminaBackend<W>, `terminal` its PlatformTerminal (lib.rs 134-138). *)
(* A write, a flush or a read returns Ok or an io::Error.                  *)
(***************************************************************************)
ErrorKinds == {"BrokenPipe", "WouldBlock"}

IoError(op, chan, kind) == [op |-> op, chan |-> chan, kind |-> kind]

Flush(chan) == [cmd |-> "Flush", chan |-> chan, cell |-> 0]

\* A call other than draw has none of draw's locals and is handed no cells.
NoDrawLocals ==
    /\ fg' = Reset /\ bg' = Reset /\ underline_color' = Reset /\ modifier' = {}
    /\ last_pos' = None
    /\ cells' = <<>>

\* DrawCellFails with the reset of line 308 written all the same.
DrawCellFails_ResetsAnyway ==
    /\ pc = "draw"
    /\ Len(cells) < MaxCells
    /\ \E cell \in content, kind \in ErrorKinds :
        LET k == Len(cells) + 1
            written == CellCommands(cell, k, last_pos, fg, bg, underline_color, modifier)
        IN  /\ ~(overflow_checks /\ IterationOverflows(last_pos, cell))
            /\ \E failing \in 1..Len(written) :
                  /\ out' = Append(out \o SubSeq(written, 1, failing - 1), SgrReset)
                  /\ pending' = Wrote(pending, "writer")
                  /\ term' = NeutralTerm
            /\ cells' = Append(cells, cell)
            /\ raised' = IoError("write", "writer", kind)
            /\ result' = Err(raised')
    /\ pc' = "idle"
    /\ UNCHANGED <<overflow_checks, content, drawn, drawVars, margins, call, args, inputVars,
                   overtaken>>
    /\ OnlyBackend

\* A write of draw fails (the `?` of lines 261-268, 286-292, 297-302, 305):
\* the commands of the iteration before the failing one have been written,
\* draw returns the error.
DrawCellFails ==
    /\ pc = "draw"
    /\ Len(cells) < MaxCells
    /\ \E cell \in content, kind \in ErrorKinds :
        LET k == Len(cells) + 1
            written == CellCommands(cell, k, last_pos, fg, bg, underline_color, modifier)
        IN  /\ ~(overflow_checks /\ IterationOverflows(last_pos, cell))
            /\ \E failing \in 1..Len(written) :
                  /\ out' = out \o SubSeq(written, 1, failing - 1)
                  /\ pending' = IF failing > 1 THEN Wrote(pending, "writer") ELSE pending
                  /\ term' = TermApplyAll(term, SubSeq(written, 1, failing - 1))
            /\ cells' = Append(cells, cell)
            /\ raised' = IoError("write", "writer", kind)
            /\ result' = Err(raised')
    /\ pc' = "idle"
    /\ UNCHANGED <<overflow_checks, content, drawn, drawVars, margins, call, args, inputVars,
                   overtaken>>
    /\ OnlyBackend

\* The write of line 308 fails: draw returns its error.
DrawEndFails ==
    /\ pc = "draw"
    /\ \E kind \in ErrorKinds :
        /\ raised' = IoError("write", "writer", kind)
        /\ result' = Err(raised')
    /\ pc' = "idle"
    /\ UNCHANGED <<overflow_checks, content, drawn, drawVars, cells, out, term, margins,
                   call, args, inputVars, channelVars>>
    /\ OnlyBackend

(***************************************************************************)
(* The cursor and clear operations (lib.rs 311-319, 343-371, 208-224):     *)
(* `write!(self.writer, "{}", command)?; self.writer.flush()`.             *)
(***************************************************************************)
HideCursorCommand == [cmd |-> "HideCursor", chan |-> "writer", cell |-> 0]
ShowCursorCommand == [cmd |-> "ShowCursor", chan |-> "writer", cell |-> 0]
\* A variant that takes the line for the column and the column for the line.
SetPositionCommand_Exchanged(col, line) ==
    [cmd |-> "Position", col |-> line, line |-> col, chan |-> "writer", cell |-> 0]

SetPositionCommand(col, line) ==
    [cmd |-> "Position", col |-> col, line |-> line, chan |-> "writer", cell |-> 0]
EraseCommand(kind) == [cmd |-> kind, chan |-> "writer", cell |-> 0]

\* One call that writes `command` to the writer and flushes the writer.
WriteThenFlush(name, a, command) ==
    /\ CallBegins(name, a)
    /\ RoomToWrite
    /\ \/ /\ out' = <<command, Flush("writer")>>
          /\ pending' = Flushed(Wrote(pending, "writer"), "writer")
          /\ overtaken' = Overtakes(Wrote(pending, "writer"), "writer")
          /\ raised' = None
          /\ result' = Ok
       \/ \E kind \in ErrorKinds :
          /\ out' = <<>>
          /\ pending' = pending
          /\ overtaken' = FALSE
          /\ raised' = IoError("write", "writer", kind)
          /\ result' = Err(raised')
       \/ \E kind \in ErrorKinds :
          /\ out' = <<command>>
          /\ pending' = Wrote(pending, "writer")
          /\ overtaken' = FALSE
          /\ raised' = IoError("flush", "writer", kind)
          /\ result' = Err(raised')
    /\ pc' = "idle"
    /\ NoDrawLocals
    /\ UNCHANGED <<term, margins>>
    /\ OnlyBackend

\* Lines 311-314.
HideCursor == WriteThenFlush("hide_cursor", None, HideCursorCommand)

\* Lines 316-319.
ShowCursor == WriteThenFlush("show_cursor", None, ShowCursorCommand)

CursorTargets == {Position(0, 0), Position(2, 1), Position(U16Max - 1, 1)}

\* Lines 343-353.
SetCursorPosition ==
    \E position \in CursorTargets :
        WriteThenFlush("set_cursor_position", position,
                       SetPositionCommand(from_zero_based(position.x),
                                          from_zero_based(position.y)))

ClearTypes == {"All", "AfterCursor", "BeforeCursor", "CurrentLine", "UntilNewLine"}

\* A variant with the two erase-in-line commands exchanged.
EraseOf_LineKindsExchanged(clear_type) ==
    CASE clear_type = "All" -> EraseCommand("EraseDisplay")
      [] clear_type = "AfterCursor" -> EraseCommand("EraseToEndOfDisplay")
      [] clear_type = "BeforeCursor" -> EraseCommand("EraseToStartOfDisplay")
      [] clear_type = "CurrentLine" -> EraseCommand("EraseToEndOfLine")
      [] clear_type = "UntilNewLine" -> EraseCommand("EraseLine")

\* Lines 359-371 (and 208-224): the erase command of each ClearType.
EraseOf(clear_type) ==
    CASE clear_type = "All" -> EraseCommand("EraseDisplay")
      [] clear_type = "AfterCursor" -> EraseCommand("EraseToEndOfDisplay")
      [] clear_type = "BeforeCursor" -> EraseCommand("EraseToStartOfDisplay")
      [] clear_type = "CurrentLine" -> EraseCommand("EraseLine")
      [] clear_type = "UntilNewLine" -> EraseCommand("EraseToEndOfLine")

\* Lines 355-357: clear() is clear_region(ClearType::All).
Clear == WriteThenFlush("clear", "All", EraseOf("All"))

\* Lines 359-371.
ClearRegion ==
    \E clear_type \in ClearTypes :
        WriteThenFlush("clear_region", clear_type, EraseOf(clear_type))

\* Lines 407-409: flush() flushes the writer, and only the writer.
FlushWriter ==
    /\ CallBegins("flush", None)
    /\ \/ /\ out' = <<Flush("writer")>>
          /\ pending' = Flushed(pending, "writer")
          /\ overtaken' = Overtakes(pending, "writer")
          /\ raised' = None
          /\ result' = Ok
       \/ \E kind \in ErrorKinds :
          /\ out' = <<>>
          /\ pending' = pending
          /\ overtaken' = FALSE
          /\ raised' = IoError("flush", "writer", kind)
          /\ result' = Err(raised')
    /\ pc' = "idle"
    /\ NoDrawLocals
    /\ UNCHANGED <<term, margins>>
    /\ OnlyBackend

(***************************************************************************)
(* The scrolling regions (lib.rs 411-443): one write! of three commands to *)
(* the terminal, whose result is returned.                                 *)
(***************************************************************************)
SetTopAndBottomMargins(top, bottom) ==
    [cmd |-> "Margins", top |-> top, bottom |-> bottom, chan |-> "terminal", cell |-> 0]
ScrollUp(amount) == [cmd |-> "ScrollUp", amount |-> amount, chan |-> "terminal", cell |-> 0]
ScrollDown(amount) == [cmd |-> "ScrollDown", amount |-> amount, chan |-> "terminal", cell |-> 0]

\* ScrollRegionCommands with the margins left alone when nothing is to scroll.
ScrollRegionCommands_NothingWhenZero(region, scroll) ==
    IF scroll.amount = 0 THEN <<>>
    ELSE << SetTopAndBottomMargins(from_zero_based(region.start), from_zero_based(region.end)),
            scroll,
            SetTopAndBottomMargins(from_zero_based(0), from_zero_based(U16Max - 1)) >>

\* Lines 412-425 and 429-442: the three arguments of the write!.
ScrollRegionCommands(region, scroll) ==
    << SetTopAndBottomMargins(from_zero_based(region.start), from_zero_based(region.end)),
       scroll,
       SetTopAndBottomMargins(from_zero_based(0), from_zero_based(U16Max - 1)) >>

\* The terminal's margins after it has read the commands cmds.
RECURSIVE MarginsAfter(_, _)
MarginsAfter(m, cmds) ==
    IF cmds = <<>> THEN m
    ELSE MarginsAfter(IF Head(cmds).cmd = "Margins"
                      THEN [top |-> Head(cmds).top, bottom |-> Head(cmds).bottom]
                      ELSE m,
                      Tail(cmds))

Regions == {[start |-> 0, end |-> 2], [start |-> 1, end |-> 3]}
Amounts == {0, 2}

\* One call of scroll_region_up or scroll_region_down.  The write! writes its
\* three arguments one after the other and stops at the first that fails.
ScrollRegion(name, region, amount, scroll) ==
    LET commands == ScrollRegionCommands(region, scroll)
    IN  /\ CallBegins(name, [region |-> region, amount |-> amount])
        /\ \/ /\ out' = commands
              /\ raised' = None
              /\ result' = Ok
           \/ \E kind \in ErrorKinds, failing \in 1..Len(commands) :
              /\ out' = SubSeq(commands, 1, failing - 1)
              /\ raised' = IoError("write", "terminal", kind)
              /\ result' = Err(raised')
        /\ RoomToWrite
        /\ pending' = IF out' = <<>> THEN pending ELSE Wrote(pending, "terminal")
        /\ overtaken' = FALSE
        /\ margins' = MarginsAfter(margins, out')
        /\ pc' = "idle"
        /\ NoDrawLocals
        /\ UNCHANGED term
        /\ OnlyBackend

\* Lines 411-426.
ScrollRegionUp ==
    \E region \in Regions, amount \in Amounts :
        ScrollRegion("scroll_region_up", region, amount, ScrollUp(amount))

\* Lines 428-443.
ScrollRegionDown ==
    \E region \in Regions, amount \in Amounts :
        ScrollRegion("scroll_region_down", region, amount, ScrollDown(amount))

(***************************************************************************)
(* The terminal's input channel: the events it has sent and nobody has     *)
(* read yet.  A position report carries one-based line and col.            *)
(***************************************************************************)
MaxEvents == 3

KeyEvent == [event |-> "Key"]
ActivePositionReport(line, col) == [event |-> "ActivePositionReport", line |-> line, col |-> col]

Events == {KeyEvent, ActivePositionReport(3, 2)}

\* The terminal sends an event (a key was pressed, a report was asked for).
EventArrives ==
    /\ pc \in {"idle", "draw", "gcp_flush", "gcp_read"}
    /\ ~closed
    /\ Len(stream) < MaxEvents
    /\ \E event \in Events :
        /\ input' = Append(input, event)
        /\ stream' = Append(stream, event)
    /\ UNCHANGED <<overflow_checks, content, pc, drawn, drawVars, cells, out, term, margins,
                   callVars, closed, discarded, channelVars>>
    /\ OnlyBackend

\* The input channel ends: nothing more will arrive.
InputCloses ==
    /\ pc \in {"idle", "draw", "gcp_flush", "gcp_read"}
    /\ ~closed
    /\ closed' = TRUE
    /\ UNCHANGED <<overflow_checks, content, pc, drawn, drawVars, cells, out, term, margins,
                   callVars, input, stream, discarded,
                   channelVars>>
    /\ OnlyBackend

(***************************************************************************)
(* get_cursor_position (lib.rs 321-341), a step at a time: the write of    *)
(* the request, the flush, terminal.read(filter), the answer.              *)
(***************************************************************************)
RequestActivePositionReport ==
    [cmd |-> "RequestActivePositionReport", chan |-> "terminal", cell |-> 0]
Read(event) == [cmd |-> "Read", chan |-> "terminal", event |-> event, cell |-> 0]

\* OneBased::get_zero_based
get_zero_based(n) == n - 1

\* The filter handed to terminal.read (lines 328-333).
IsPositionReport(event) == event.event = "ActivePositionReport"

\* GcpWrite going on to read without the flush of line 327.
GcpWrite_NoFlush ==
    /\ CallBegins("get_cursor_position", None)
    /\ RoomToWrite
    /\ overtaken' = FALSE
    /\ \/ /\ out' = <<RequestActivePositionReport>>
          /\ pending' = Wrote(pending, "terminal")
          /\ raised' = None
          /\ result' = None
          /\ pc' = "gcp_read"
       \/ \E kind \in ErrorKinds :
          /\ out' = <<>>
          /\ pending' = pending
          /\ raised' = IoError("write", "terminal", kind)
          /\ result' = Err(raised')
          /\ pc' = "idle"
    /\ NoDrawLocals
    /\ UNCHANGED <<term, margins>>
    /\ OnlyBackend

\* Lines 322-326: the request is written to the terminal, or the write fails
\* and its error is returned.
GcpWrite ==
    /\ CallBegins("get_cursor_position", None)
    /\ RoomToWrite
    /\ overtaken' = FALSE
    /\ \/ /\ out' = <<RequestActivePositionReport>>
          /\ pending' = Wrote(pending, "terminal")
          /\ raised' = None
          /\ result' = None
          /\ pc' = "gcp_flush"
       \/ \E kind \in ErrorKinds :
          /\ out' = <<>>
          /\ pending' = pending
          /\ raised' = IoError("write", "terminal", kind)
          /\ result' = Err(raised')
          /\ pc' = "idle"
    /\ NoDrawLocals
    /\ UNCHANGED <<term, margins>>
    /\ OnlyBackend

\* Line 327: the terminal is flushed, or the flush fails and its error is
\* returned.
GcpFlush ==
    /\ pc = "gcp_flush"
    /\ \/ /\ out' = Append(out, Flush("terminal"))
          /\ pending' = Flushed(pending, "terminal")
          /\ overtaken' = Overtakes(pending, "terminal")
          /\ pc' = "gcp_read"
          /\ UNCHANGED <<result, raised>>
       \/ \E kind \in ErrorKinds :
          /\ raised' = IoError("flush", "terminal", kind)
          /\ result' = Err(raised')
          /\ pc' = "idle"
          /\ UNCHANGED <<out, channelVars>>
    /\ UNCHANGED <<overflow_checks, content, drawn, drawVars, cells, term, margins,
                   call, args, inputVars>>
    /\ OnlyBackend

\* ReadDiscards giving up, with an error of its own, once it has dropped an
\* event.
ReadDiscards_GivesUp ==
    /\ pc = "gcp_read"
    /\ input # <<>>
    /\ ~IsPositionReport(Head(input))
    /\ input' = Tail(input)
    /\ discarded' = Append(discarded, Head(input))
    /\ out' = Append(out, Read(Head(input)))
    /\ result' = Err(IoError("read", "terminal", "TimedOut"))
    /\ pc' = "idle"
    /\ UNCHANGED <<overflow_checks, content, drawn, drawVars, cells, term, margins,
                   call, args, raised, closed, stream, channelVars>>
    /\ OnlyBackend

\* terminal.read(filter), inside the call of lines 328-333: the oldest
\* waiting event does not pass the filter; read drops it and goes on waiting.
ReadDiscards ==
    /\ pc = "gcp_read"
    /\ input # <<>>
    /\ ~IsPositionReport(Head(input))
    /\ input' = Tail(input)
    /\ discarded' = Append(discarded, Head(input))
    /\ out' = Append(out, Read(Head(input)))
    /\ UNCHANGED <<overflow_checks, content, pc, drawn, drawVars, cells, term, margins,
                   callVars, closed, stream, channelVars>>
    /\ OnlyBackend

\* ReadReturns answering with the report's one-based numbers as they are.
ReadReturns_OneBased ==
    /\ pc = "gcp_read"
    /\ input # <<>>
    /\ IsPositionReport(Head(input))
    /\ input' = Tail(input)
    /\ out' = Append(out, Read(Head(input)))
    /\ LET event == Head(input)
       IN  IF IsPositionReport(event)
           THEN /\ result' = OkPosition(Position(event.col, event.line))
                /\ pc' = "idle"
           ELSE /\ result' = None
                /\ pc' = "panicked"
    /\ UNCHANGED <<overflow_checks, content, drawn, drawVars, cells, term, margins,
                   call, args, raised, closed, stream, discarded,
                   channelVars>>
    /\ OnlyBackend

\* terminal.read(filter) returns the oldest waiting event, which passes the
\* filter; lines 334-340 take it apart (anything but a position report is
\* unreachable!()) and answer with its zero-based column and line.
ReadReturns ==
    /\ pc = "gcp_read"
    /\ input # <<>>
    /\ IsPositionReport(Head(input))
    /\ input' = Tail(input)
    /\ out' = Append(out, Read(Head(input)))
    /\ LET event == Head(input)
       IN  IF IsPositionReport(event)
           THEN /\ result' = OkPosition(Position(get_zero_based(event.col),
                                                   get_zero_based(event.line)))
                /\ pc' = "idle"
           ELSE /\ result' = None
                /\ pc' = "panicked"
    /\ UNCHANGED <<overflow_checks, content, drawn, drawVars, cells, term, margins,
                   call, args, raised, closed, stream, discarded,
                   channelVars>>
    /\ OnlyBackend

\* The errors terminal.read can return now: any failure of the channel, and
\* the end of the input once the channel has ended and nothing is waiting.
ReadErrorKinds ==
    ErrorKinds \cup (IF closed /\ input = <<>> THEN {"UnexpectedEof"} ELSE {})

\* ReadFails aborting the process instead of returning the error.
ReadFails_Aborts ==
    /\ pc = "gcp_read"
    /\ \E kind \in ReadErrorKinds :
        /\ raised' = IoError("read", "terminal", kind)
        /\ result' = None
    /\ pc' = "panicked"
    /\ UNCHANGED <<overflow_checks, content, drawn, drawVars, cells, out, term, margins,
                   call, args, inputVars, channelVars>>
    /\ OnlyBackend

\* terminal.read(filter) fails, the end of the input included; the `?` of
\* line 333 returns its error.
ReadFails ==
    /\ pc = "gcp_read"
    /\ \E kind \in ReadErrorKinds :
        /\ raised' = IoError("read", "terminal", kind)
        /\ result' = Err(raised')
    /\ pc' = "idle"
    /\ UNCHANGED <<overflow_checks, content, drawn, drawVars, cells, out, term, margins,
                   call, args, inputVars, channelVars>>
    /\ OnlyBackend

(***************************************************************************)
(* The application's own reads.  terminal() (lib.rs 188-190) lends the     *)
(* PlatformTerminal out of a shared borrow of the backend, and the         *)
(* application reads its events through it (the demo's run_app does,       *)
(* lines 78-88).  A shared borrow and the `&mut self` of a call of the     *)
(* backend are never held together.                                        *)
(***************************************************************************)
ReadEvent(event) == [tag |-> "Ok", event |-> event]

\* backend.terminal().read(..) begins: it waits for an event.
TerminalReadBegins ==
    /\ pc = "idle"
    /\ rpc = "idle"
    /\ rpc' = "read"
    /\ call' = "terminal.read"
    /\ args' = None
    /\ result' = None /\ raised' = None
    /\ stream' = input
    /\ discarded' = <<>>
    /\ out' = <<>>
    /\ NoDrawLocals
    /\ UNCHANGED <<overflow_checks, content, pc, drawn, term, margins, input, closed,
                   channelVars>>
    /\ UNCHANGED <<colorVars, diffVars, demoVars, widgetVars, buffered>>

\* It returns the oldest waiting event.
TerminalReadReturns ==
    /\ rpc = "read"
    /\ input # <<>>
    /\ input' = Tail(input)
    /\ out' = Append(out, Read(Head(input)))
    /\ result' = ReadEvent(Head(input))
    /\ rpc' = "idle"
    /\ UNCHANGED <<overflow_checks, content, pc, drawn, drawVars, cells, term, margins,
                   call, args, raised, closed, stream, discarded, channelVars>>
    /\ UNCHANGED <<colorVars, diffVars, demoVars, widgetVars, buffered>>

(***************************************************************************)
(* SpecIO: every operation, over a content of two cells.                   *)
(***************************************************************************)
IOCells ==
    {[x |-> 0, y |-> 0, symbol |-> "A", fg |-> Named("Red"), bg |-> Reset,
      underline_color |-> Reset, modifier |-> {}],
     [x |-> 1, y |-> 0, symbol |-> "B", fg |-> Named("Red"), bg |-> Reset,
      underline_color |-> Reset, modifier |-> {}]}

IOInit ==
    /\ overflow_checks = FALSE
    /\ content = IOCells
    /\ buffered = FALSE
    /\ NewBackend

IONext ==
    \/ DrawBegin \/ DrawCell \/ DrawEnd \/ DrawCellFails \/ DrawEndFails
    \/ HideCursor \/ ShowCursor \/ SetCursorPosition \/ Clear \/ ClearRegion
    \/ FlushWriter
    \/ ScrollRegionUp \/ ScrollRegionDown
    \/ GcpWrite \/ GcpFlush \/ ReadDiscards \/ ReadReturns \/ ReadFails
    \/ TerminalReadBegins \/ TerminalReadReturns
    \/ EventArrives \/ InputCloses

(***************************************************************************)
(* SpecChan: the operations over buffered channels.  The terminal sends    *)
(* nothing of its own accord; it answers a request for a position report   *)
(* once the request has been passed on to it.                              *)
(***************************************************************************)
ChanInit ==
    /\ overflow_checks = FALSE
    /\ content = IOCells
    /\ buffered = TRUE
    /\ NewBackend

\* The terminal answers the request it has received.
TerminalAnswers ==
    /\ pc = "gcp_read"
    /\ ~closed
    /\ input = <<>>
    /\ input' = <<ActivePositionReport(3, 2)>>
    /\ stream' = Append(stream, ActivePositionReport(3, 2))
    /\ UNCHANGED <<overflow_checks, content, pc, drawn, drawVars, cells, out, term, margins,
                   callVars, closed, discarded, channelVars>>
    /\ OnlyBackend

ChanNext ==
    \/ DrawBegin \/ DrawCell \/ DrawEnd \/ DrawCellFails \/ DrawEndFails
    \/ HideCursor \/ ShowCursor \/ SetCursorPosition \/ Clear \/ ClearRegion
    \/ FlushWriter
    \/ ScrollRegionUp \/ ScrollRegionDown
    \/ GcpWrite \/ GcpFlush \/ TerminalAnswers \/ ReadReturns \/ ReadFails

(***************************************************************************)
(* SpecColor: the inputs of the conversions.  Palette indices are the full *)
(* u8 range; colour channels and alpha are sampled.                        *)
(***************************************************************************)
ChannelSamples == {0, 10, 20, 30, 255}
AlphaSamples == {0, 128, 255}

ColorInputs ==
    {Reset} \cup {Named(n) : n \in NamedColors}
            \cup {Indexed(i) : i \in 0..255}
            \cup {Rgb(r, g, b) : r \in ChannelSamples, g \in ChannelSamples, b \in ChannelSamples}

NativeInputs ==
    {NativeReset} \cup {PaletteIndex(i) : i \in 0..255}
                  \cup {TrueColor(r, g, b, a) : r \in ChannelSamples, g \in ChannelSamples,
                                                b \in ChannelSamples, a \in AlphaSamples}

NoColor == [tag |-> "none"]

ColorIdle ==
    /\ cdir = "none" /\ cstage = "idle"
    /\ cin = NoColor /\ cnative = NoColor /\ cout = NoColor

DiffIdle ==
    /\ dstage = "idle"
    /\ dfrom = {} /\ dto = {} /\ dcodes = {} /\ dterm = {}

BackendIdle ==
    /\ overflow_checks = FALSE
    /\ content = {}
    /\ pc = "off"
    /\ drawn = FALSE
    /\ fg = Reset /\ bg = Reset /\ underline_color = Reset /\ modifier = {}
    /\ last_pos = None
    /\ cells = <<>>
    /\ out = <<>>
    /\ term = NeutralTerm
    /\ margins = FullScreen
    /\ call = "none" /\ args = None /\ result = None /\ raised = None
    /\ input = <<>> /\ closed = FALSE /\ stream = <<>> /\ discarded = <<>>
    /\ buffered = FALSE /\ pending = <<>> /\ overtaken = FALSE
    /\ rpc = "idle"

OnlyColor == UNCHANGED <<diffVars, backendVars, demoVars, widgetVars>>

ColorInit ==
    /\ cdir \in {"into", "from"}
    /\ cstage = "start"
    /\ cin \in (IF cdir = "into" THEN ColorInputs ELSE NativeInputs)
    /\ cnative = NoColor
    /\ cout = NoColor

\* color.into_termina()
CallIntoTermina ==
    /\ cdir = "into" /\ cstage = "start"
    /\ cnative' = IntoTermina(cin)
    /\ cstage' = "native"
    /\ UNCHANGED <<cdir, cin, cout>>
    /\ OnlyColor

\* Color::from_termina(native), closing the round trip
CallFromTerminaBack ==
    /\ cdir = "into" /\ cstage = "native"
    /\ cout' = FromTermina(cnative)
    /\ cstage' = "done"
    /\ UNCHANGED <<cdir, cin, cnative>>
    /\ OnlyColor

\* Color::from_termina(native) on a value that comes from the terminal side
CallFromTermina ==
    /\ cdir = "from" /\ cstage = "start"
    /\ cnative' = cin
    /\ cout' = FromTermina(cin)
    /\ cstage' = "done"
    /\ UNCHANGED <<cdir, cin>>
    /\ OnlyColor

ColorNext == CallIntoTermina \/ CallFromTerminaBack \/ CallFromTermina

(***************************************************************************)
(* SpecDemo: run_app (examples/apps/demo/src/termina.rs 64-104).  The loop *)
(* draws, polls the terminal for an event that is not an escape sequence,  *)
(* ticks the application when the poll times out, and reads and handles    *)
(* the event otherwise.  Time is a clock that advances in whole units.     *)
(***************************************************************************)
MaxTime == 6
MaxQueue == 2

TickRates == {1, 3}

\* The events of the input: the key 'q', another key, an escape sequence.
DemoEvents == {"q", "x", "escape"}

\* The filter of lines 81 and 88: |e| !e.is_escape()
NotEscape(event) == event # "escape"

Matching(q) == {i \in 1..Len(q) : NotEscape(q[i])}
FirstMatching(q) == CHOOSE i \in Matching(q) : \A j \in Matching(q) : i <= j

\* Duration::saturating_sub
saturating_sub(a, b) == IF a >= b THEN a - b ELSE 0

OnlyDemo == UNCHANGED <<colorVars, diffVars, backendVars, widgetVars>>

\* Line 72.
DemoInit ==
    /\ tick_rate \in TickRates
    /\ lpc = "draw"
    /\ now = 0
    /\ last_tick = 0
    /\ ticked_at = 0
    /\ timeout = 0
    /\ waited = 0
    /\ should_quit = FALSE
    /\ queue = <<>>
    /\ did = "start"
    /\ returned = None

\* The clock advances.  A poll waits no longer than its timeout.
TimePasses ==
    /\ lpc \in {"draw", "poll", "read"}
    /\ now < MaxTime
    /\ lpc = "poll" => waited < timeout
    /\ now' = now + 1
    /\ waited' = IF lpc = "poll" THEN waited + 1 ELSE waited
    /\ UNCHANGED <<lpc, tick_rate, last_tick, timeout, should_quit, queue, did, ticked_at,
                   returned>>
    /\ OnlyDemo

\* The terminal sends an event.
KeyArrives ==
    /\ lpc \in {"draw", "poll", "read"}
    /\ Len(queue) < MaxQueue
    /\ \E event \in DemoEvents : queue' = Append(queue, event)
    /\ UNCHANGED <<lpc, tick_rate, last_tick, timeout, should_quit, now, waited, did,
                   ticked_at, returned>>
    /\ OnlyDemo

\* Lines 74-76: the frame is drawn and the timeout of the poll computed; or
\* the draw fails and the `?` returns its error.
LoopDraws ==
    /\ lpc = "draw"
    /\ did' = "draw"
    /\ \/ /\ timeout' = saturating_sub(tick_rate, now - last_tick)
          /\ waited' = 0
          /\ lpc' = "poll"
          /\ UNCHANGED returned
       \/ /\ returned' = Err(IoError("draw", "writer", "BrokenPipe"))
          /\ lpc' = "returned"
          /\ UNCHANGED <<timeout, waited>>
    /\ UNCHANGED <<tick_rate, last_tick, should_quit, now, queue, ticked_at>>
    /\ OnlyDemo

\* LoopPollReportsEvent for a poll that is handed no filter: an escape
\* sequence makes it report an event too.
LoopPollReportsEvent_AnyEvent ==
    /\ lpc = "poll"
    /\ queue # <<>>
    /\ lpc' = "read"
    /\ did' = "poll"
    /\ UNCHANGED <<tick_rate, last_tick, timeout, should_quit, now, waited, queue, ticked_at,
                   returned>>
    /\ OnlyDemo

\* Lines 78-82, 88: poll(filter, Some(timeout)) finds an event that passes the
\* filter and returns true, whatever the timeout; the loop goes on to read.
LoopPollReportsEvent ==
    /\ lpc = "poll"
    /\ Matching(queue) # {}
    /\ lpc' = "read"
    /\ did' = "poll"
    /\ UNCHANGED <<tick_rate, last_tick, timeout, should_quit, now, waited, queue, ticked_at,
                   returned>>
    /\ OnlyDemo

\* Lines 78-85: the timeout has elapsed and no event passes the filter; poll
\* returns false, the application ticks, last_tick is reset, the loop goes
\* back to draw.
LoopPollTimesOut ==
    /\ lpc = "poll"
    /\ Matching(queue) = {}
    /\ waited = timeout
    /\ ticked_at' = now
    /\ last_tick' = now
    /\ lpc' = "draw"
    /\ did' = "tick"
    /\ UNCHANGED <<tick_rate, timeout, should_quit, now, waited, queue, returned>>
    /\ OnlyDemo

\* The `?` of line 81.
LoopPollFails ==
    /\ lpc = "poll"
    /\ returned' = Err(IoError("poll", "terminal", "BrokenPipe"))
    /\ lpc' = "returned"
    /\ UNCHANGED <<tick_rate, last_tick, timeout, should_quit, now, waited, queue, did,
                   ticked_at>>
    /\ OnlyDemo

\* Lines 88-102: read(filter) returns the first event that passes the filter
\* (those before it are dropped), the event is handled ('q' sets
\* should_quit), and the loop returns Ok if should_quit is set.
LoopReads ==
    /\ lpc = "read"
    /\ Matching(queue) # {}
    /\ LET i == FirstMatching(queue)
       IN  /\ queue' = SubSeq(queue, i + 1, Len(queue))
           /\ should_quit' = (queue[i] = "q")
    /\ did' = "event"
    /\ IF should_quit'
       THEN lpc' = "returned" /\ returned' = Ok
       ELSE lpc' = "draw" /\ UNCHANGED returned
    /\ UNCHANGED <<tick_rate, last_tick, timeout, now, waited, ticked_at>>
    /\ OnlyDemo

\* The `?` of line 88.
LoopReadFails ==
    /\ lpc = "read"
    /\ returned' = Err(IoError("read", "terminal", "BrokenPipe"))
    /\ lpc' = "returned"
    /\ UNCHANGED <<tick_rate, last_tick, timeout, should_quit, now, waited, queue, did,
                   ticked_at>>
    /\ OnlyDemo

DemoNext ==
    \/ LoopDraws \/ LoopPollReportsEvent \/ LoopPollTimesOut \/ LoopPollFails
    \/ LoopReads \/ LoopReadFails
    \/ KeyArrives \/ TimePasses

DemoIdle ==
    /\ lpc = "off"
    /\ tick_rate = 0 /\ last_tick = 0 /\ timeout = 0 /\ now = 0 /\ waited = 0
    /\ ticked_at = 0
    /\ should_quit = FALSE
    /\ queue = <<>>
    /\ did = "none"
    /\ returned = None

(***************************************************************************)
(* SpecWidget: the custom-widget example                                   *)
(* (examples/apps/custom-widget/src/main.rs 146-167, 195-258): three       *)
(* buttons, one of them selected with the keys or the mouse, toggled with  *)
(* the space bar or the left mouse button.                                 *)
(***************************************************************************)
\* enum State (lines 45-49)
State == {"Normal", "Selected", "Active"}

Buttons == 0..2

\* The events event::read() can return.
KeyCodes == {"q", "Left", "h", "Right", "l", "Space", "x"}
KeyEvents == {[event |-> "Key", code |-> c, is_press |-> p] : c \in KeyCodes, p \in BOOLEAN}
MouseKinds == {"Moved", "DownLeft", "DownRight", "UpLeft"}
MouseColumns == {0, 14, 15, 29, 30, U16Max}
MouseEvents == {[event |-> "Mouse", kind |-> k, column |-> x] : k \in MouseKinds, x \in MouseColumns}
WidgetEvents == KeyEvents \cup MouseEvents \cup {[event |-> "Resize"]}

\* usize::saturating_sub(1) and usize::saturating_add(1).min(2), on the
\* values selected_button takes.
SelectLeft(n) == IF n = 0 THEN 0 ELSE n - 1
SelectRight(n) == IF n + 1 < 2 THEN n + 1 ELSE 2

\* Lines 215-221 and 249-255: the button goes back to Normal if it is Active
\* and becomes Active otherwise.
Toggle(states, n) ==
    [states EXCEPT ![n] = IF states[n] = "Active" THEN "Normal" ELSE "Active"]

\* What a handler leaves: the states, the selection, and whether the loop breaks.
Handled(states, selected, break) ==
    [button_states |-> states, selected_button |-> selected, break |-> break]

\* Lines 195-225.
handle_key_event(key, states, selected) ==
    IF ~key.is_press THEN Handled(states, selected, FALSE)
    ELSE CASE key.code = "q" -> Handled(states, selected, TRUE)
           [] key.code \in {"Left", "h"} ->
                LET to == SelectLeft(selected)
                IN  Handled([[states EXCEPT ![selected] = "Normal"] EXCEPT ![to] = "Selected"],
                            to, FALSE)
           [] key.code \in {"Right", "l"} ->
                LET to == SelectRight(selected)
                IN  Handled([[states EXCEPT ![selected] = "Normal"] EXCEPT ![to] = "Selected"],
                            to, FALSE)
           [] key.code = "Space" -> Handled(Toggle(states, selected), selected, FALSE)
           [] OTHER -> Handled(states, selected, FALSE)

\* Lines 235-239: the button under a column.
ButtonAt(column) == IF column < 15 THEN 0 ELSE IF column < 30 THEN 1 ELSE 2

\* handle_mouse_event leaving the button the pointer came from as it was.
handle_mouse_event_LeavesOld(mouse, states, selected) ==
    CASE mouse.kind = "Moved" ->
            LET to == ButtonAt(mouse.column)
                entered == IF to # selected /\ states[to] # "Active"
                           THEN [states EXCEPT ![to] = "Selected"] ELSE states
            IN  Handled(entered, to, FALSE)
      [] mouse.kind = "DownLeft" -> Handled(Toggle(states, selected), selected, FALSE)
      [] OTHER -> Handled(states, selected, FALSE)

\* Lines 227-258.
handle_mouse_event(mouse, states, selected) ==
    CASE mouse.kind = "Moved" ->
            LET to == ButtonAt(mouse.column)
                left == IF to # selected /\ states[selected] # "Active"
                        THEN [states EXCEPT ![selected] = "Normal"] ELSE states
                entered == IF to # selected /\ left[to] # "Active"
                           THEN [left EXCEPT ![to] = "Selected"] ELSE left
            IN  Handled(entered, to, FALSE)
      [] mouse.kind = "DownLeft" -> Handled(Toggle(states, selected), selected, FALSE)
      [] OTHER -> Handled(states, selected, FALSE)

OnlyWidget == UNCHANGED <<colorVars, diffVars, backendVars, demoVars>>

\* Lines 147-148.
WidgetInit ==
    /\ wpc = "draw"
    /\ selected_button = 0
    /\ button_states = [i \in Buttons |-> IF i = 0 THEN "Selected" ELSE "Normal"]
    /\ wevent = None
    /\ wreturned = None

\* Line 150: the frame is drawn.
RunDraws ==
    /\ wpc = "draw"
    /\ wpc' = "poll"
    /\ UNCHANGED <<selected_button, button_states, wevent, wreturned>>
    /\ OnlyWidget

\* Lines 151-153: event::poll(100 ms) returns false; continue.
RunPollTimesOut ==
    /\ wpc = "poll"
    /\ wpc' = "draw"
    /\ UNCHANGED <<selected_button, button_states, wevent, wreturned>>
    /\ OnlyWidget

\* Line 151: event::poll returns true.
RunPollReportsEvent ==
    /\ wpc = "poll"
    /\ wpc' = "read"
    /\ UNCHANGED <<selected_button, button_states, wevent, wreturned>>
    /\ OnlyWidget

\* Lines 154-166: event::read() returns an event and the match hands it to
\* its handler; the loop breaks when handle_key_event says so, and run
\* returns Ok.
RunReads ==
    /\ wpc = "read"
    /\ \E event \in WidgetEvents :
        LET after == CASE event.event = "Key" ->
                              handle_key_event(event, button_states, selected_button)
                       [] event.event = "Mouse" ->
                              handle_mouse_event(event, button_states, selected_button)
                       [] OTHER -> Handled(button_states, selected_button, FALSE)
        IN  /\ wevent' = event
            /\ button_states' = after.button_states
            /\ selected_button' = after.selected_button
            /\ IF after.break
               THEN wpc' = "returned" /\ wreturned' = Ok
               ELSE wpc' = "draw" /\ UNCHANGED wreturned
    /\ OnlyWidget

\* The `?` of lines 150, 151 and 154.
RunFails ==
    /\ wpc \in {"draw", "poll", "read"}
    /\ wreturned' = Err(IoError(wpc, "stdout", "BrokenPipe"))
    /\ wpc' = "returned"
    /\ UNCHANGED <<selected_button, button_states, wevent>>
    /\ OnlyWidget

WidgetNext ==
    \/ RunDraws \/ RunPollTimesOut \/ RunPollReportsEvent \/ RunReads \/ RunFails

WidgetIdle ==
    /\ wpc = "off"
    /\ selected_button = 0
    /\ button_states = [i \in Buttons |-> "Normal"]
    /\ wevent = None
    /\ wreturned = None

InitColor == ColorInit /\ DiffIdle /\ BackendIdle /\ DemoIdle /\ WidgetIdle

SpecColor == InitColor /\ [][ColorNext]_vars

InitDiff == DiffInit /\ ColorIdle /\ BackendIdle /\ DemoIdle /\ WidgetIdle

SpecDiff == InitDiff /\ [][DiffNext]_vars

Init == BackendInit /\ ColorIdle /\ DiffIdle /\ DemoIdle /\ WidgetIdle

Next == BackendNext

Spec == Init /\ [][Next]_vars

InitIO == IOInit /\ ColorIdle /\ DiffIdle /\ DemoIdle /\ WidgetIdle

SpecIO == InitIO /\ [][IONext]_vars

InitChan == ChanInit /\ ColorIdle /\ DiffIdle /\ DemoIdle /\ WidgetIdle

SpecChan == InitChan /\ [][ChanNext]_vars

InitDemo == DemoInit /\ ColorIdle /\ DiffIdle /\ BackendIdle /\ WidgetIdle

SpecDemo == InitDemo /\ [][DemoNext]_vars

InitWidget == WidgetInit /\ ColorIdle /\ DiffIdle /\ BackendIdle /\ DemoIdle

SpecWidget == InitWidget /\ [][WidgetNext]_vars

(***************************************************************************)
(* The colour conversions: claims C8, C9, C10 (checked under SpecColor).   *)
(***************************************************************************)
RoundTripDone == cdir = "into" /\ cstage = "done"

\* C8 (as stated): for every palette index i in 0..255,
\* from_termina(into_termina(Indexed(i))) = Indexed(i), the indices 0..15
\* included.
C8_IndexedRoundTrip ==
    (RoundTripDone /\ cin.tag = "Indexed") => cout = cin

StandardNames == {"Black", "Red", "Green", "Yellow", "Blue", "Magenta", "Cyan", "Gray"}
BrightNames == NamedColors \ StandardNames
StandardConsts == {"BLACK", "RED", "GREEN", "YELLOW", "BLUE", "MAGENTA", "CYAN", "WHITE"}
BrightConsts == DOMAIN ColorSpecConst \ StandardConsts

\* C9: every named colour and Reset survives the round trip; Gray is paired
\* with WHITE and White with BRIGHT_WHITE, in both directions; a standard
\* colour is paired with one of the eight standard constants and a bright
\* colour with one of the eight BRIGHT_ constants.
C9_NamedRoundTrip ==
    /\ (RoundTripDone /\ cin.tag \in NamedColors \cup {"Reset"}) => cout = cin
    /\ (cdir = "into" /\ cstage # "start" /\ cin = Named("Gray"))
           => cnative = ColorSpecConst.WHITE
    /\ (cdir = "into" /\ cstage # "start" /\ cin = Named("White"))
           => cnative = ColorSpecConst.BRIGHT_WHITE
    /\ (cdir = "into" /\ cstage # "start" /\ cin.tag \in StandardNames)
           => cnative \in {ColorSpecConst[n] : n \in StandardConsts}
    /\ (cdir = "into" /\ cstage # "start" /\ cin.tag \in BrightNames)
           => cnative \in {ColorSpecConst[n] : n \in BrightConsts}
    /\ (cdir = "from" /\ cstage = "done" /\ cin = ColorSpecConst.WHITE)
           => cout = Named("Gray")
    /\ (cdir = "from" /\ cstage = "done" /\ cin = ColorSpecConst.BRIGHT_WHITE)
           => cout = Named("White")
    /\ (cdir = "from" /\ cstage = "done" /\ cout.tag \in NamedColors)
           => IntoTermina(cout) = cin

C9_Witness ==
    /\ RoundTripDone
    /\ cin = Named("Gray")
    /\ cnative = ColorSpecConst.WHITE
    /\ cout = Named("Gray")

\* C10: every Rgb(r, g, b) survives the round trip, and a native true-colour
\* value converts to the Rgb of its red, green and blue whatever its alpha.
C10_RgbRoundTrip ==
    /\ (RoundTripDone /\ cin.tag = "Rgb") => cout = cin
    /\ (cdir = "from" /\ cstage = "done" /\ cin.tag = "TrueColor")
           => cout = Rgb(cin.red, cin.green, cin.blue)

C10_Witness ==
    /\ cdir = "from" /\ cstage = "done"
    /\ cin = TrueColor(10, 20, 30, 0)
    /\ cout = Rgb(10, 20, 30)

(***************************************************************************)
(* The attribute diff: claims C2, C18, C19, C20 (checked under SpecDiff).  *)
(***************************************************************************)
\* C2 (as stated): for every pair of attribute sets (A, B), the codes of
\* diff_modifiers(A, B), applied to a terminal whose attributes are A, leave
\* its attributes exactly B.
C2_DiffReachesTarget ==
    dstage = "applied" => dterm = dto

Diffed == dstage \in {"diffed", "applied"}

C19_IntensityNormalOnRemoval ==
    Diffed =>
        LET removed == dfrom \ dto
            added == dto \ dfrom
        IN  (("BOLD" \in removed /\ "DIM" \notin added) \/ "DIM" \in removed)
                => "INTENSITY_NORMAL" \in dcodes

\* The five attributes with a code pair of their own.
OnCodeOf ==
    [ITALIC |-> "ITALIC", UNDERLINED |-> "UNDERLINE_SINGLE", CROSSED_OUT |-> "STRIKE_THROUGH",
     HIDDEN |-> "INVISIBLE", REVERSED |-> "REVERSE"]
OffCodeOf ==
    [ITALIC |-> "NO_ITALIC", UNDERLINED |-> "NO_UNDERLINE", CROSSED_OUT |-> "NO_STRIKE_THROUGH",
     HIDDEN |-> "NO_INVISIBLE", REVERSED |-> "NO_REVERSE"]

\* C20 (as stated): for each of italic, underlined, crossed-out, hidden and
\* reversed, its turn-on code is among the codes exactly when the attribute
\* is added and its turn-off code exactly when it is removed.
C20_OwnOnAndOffCode ==
    Diffed =>
        \A a \in DOMAIN OnCodeOf :
            /\ (OnCodeOf[a] \in dcodes) <=> (a \in dto \ dfrom)
            /\ (OffCodeOf[a] \in dcodes) <=> (a \in dfrom \ dto)

\* C21: diffing a modifier set against itself gives the empty set of codes,
\* whatever the set is.
C21_SelfDiffIsEmpty ==
    (Diffed /\ dfrom = dto) => dcodes = {}

C21_Witness ==
    /\ Diffed
    /\ dfrom = dto
    /\ dfrom = {"BOLD", "SLOW_BLINK", "UNDERLINED"}

(***************************************************************************)
(* draw: claims C1, C3, C4, C5, C6, C7 (checked under Spec).               *)
(***************************************************************************)
\* The cells of this call whose iteration has run to its end.
Written == IF pc = "panicked" THEN Len(cells) - 1 ELSE Len(cells)

\* The places in `out` of the commands of kind cmd written for cell k.
Places(cmd, k) == {i \in 1..Len(out) : out[i].cmd = cmd /\ out[i].cell = k}

NoReset(i) == out[i].cmd # "Reset"

Tracked ==
    [fg |-> IntoTermina(fg), bg |-> IntoTermina(bg),
     underline |-> IntoTermina(underline_color), attrs |-> modifier]

\* C1 (as stated): at every cell boundary inside a draw the style the encoder
\* tracks (fg, bg, underline colour, attributes) is the style in effect on the
\* terminal, and between draws the terminal is neutral.
C1_TrackedStyleIsTerminalStyle ==
    /\ pc = "draw" => term = Tracked
    /\ pc = "idle" => term = NeutralTerm

\* C3 (as stated): a position command is written for a cell if and only if it
\* is the first cell of the call or it is not exactly one column to the right
\* of the preceding cell on the same row.
C3_PositionIffNotAdjacent ==
    \A k \in 1..Written :
        (Places("Position", k) # {})
            <=> (k = 1 \/ ~(cells[k].x = cells[k - 1].x + 1 /\ cells[k].y = cells[k - 1].y))

\* C28 (as stated): whatever the column of the preceding cell, 65535
\* included, the adjacency test of draw does not abort for overflow, and a
\* cell that follows a cell of column 65535 is never taken as adjacent to it:
\* it gets its position command.
C28_AdjacencyTestIsExactAtMax ==
    /\ ~(/\ overflow_checks /\ pc = "panicked"
         /\ Len(cells) >= 2 /\ cells[Len(cells) - 1].x = U16Max)
    /\ \A k \in 2..Written :
           cells[k - 1].x = U16Max => Places("Position", k) # {}

NeutralStyle == Style(Reset, Reset, Reset, {})
Before(k) == IF k = 1 THEN NeutralStyle ELSE cells[k - 1]

\* C4 (as stated): the style command written for a cell sets exactly the
\* fields (foreground, background, attributes) in which the cell differs from
\* the cell before it (from neutral for the first cell): one command when some
\* field differs, with exactly the differing fields set, and none when none
\* differs.
C4_StyleSetsExactlyChangedFields ==
    \A k \in 1..Written :
        LET fgDiffers == cells[k].fg # Before(k).fg
            bgDiffers == cells[k].bg # Before(k).bg
            modDiffers == cells[k].modifier # Before(k).modifier
        IN  /\ Cardinality(Places("Attributes", k))
                  = IF fgDiffers \/ bgDiffers \/ modDiffers THEN 1 ELSE 0
            /\ \A i \in Places("Attributes", k) :
                  /\ out[i].foreground = IF fgDiffers THEN IntoTermina(cells[k].fg) ELSE None
                  /\ out[i].background = IF bgDiffers THEN IntoTermina(cells[k].bg) ELSE None
                  /\ (out[i].modifiers # {}) <=> modDiffers

Rank(c) ==
    CASE c.cmd = "Position" -> 1
      [] c.cmd \in {"UnderlineColor", "Attributes"} -> 2
      [] c.cmd = "Text" -> 3

ScenarioA == [x |-> 0, y |-> 0, symbol |-> "A", fg |-> Named("Red"), bg |-> Reset,
              underline_color |-> Reset, modifier |-> {}]
ScenarioB == [x |-> 1, y |-> 0, symbol |-> "B", fg |-> Named("Red"), bg |-> Reset,
              underline_color |-> Reset, modifier |-> {}]
ScenarioOutput ==
    << CursorPosition(1, 1, 1),
       SgrAttributes([foreground |-> PaletteIndex(1), background |-> None, modifiers |-> {}], 1),
       Text("A", 1), Text("B", 2), SgrReset >>

\* C5: for every cell the position command (if any) comes first, then the
\* style commands, then the glyph, which is the cell's last command; all that
\* is written for cell k comes before anything written for cell k + 1; and
\* draw([(0,0,'A',fg=red), (1,0,'B',fg=red)]) writes exactly position(0,0),
\* set-fg(red), "A", "B", reset.
C5_PositionStyleGlyphOrder ==
    /\ \A i \in 1..Len(out) : NoReset(i) => out[i].cell \in 1..Written
    /\ \A i \in 1..(Len(out) - 1) :
          (NoReset(i) /\ NoReset(i + 1))
              => \/ out[i].cell < out[i + 1].cell
                 \/ /\ out[i].cell = out[i + 1].cell
                    /\ Rank(out[i]) <= Rank(out[i + 1])
                    /\ Rank(out[i]) < 3
    /\ \A k \in 1..Written :
          /\ Cardinality(Places("Text", k)) = 1
          /\ Cardinality(Places("Position", k)) <= 1
          /\ \A i \in Places("Text", k) : out[i].text = cells[k].symbol
    /\ (pc = "idle" /\ cells = <<ScenarioA, ScenarioB>>) => out = ScenarioOutput

C5_Witness ==
    /\ pc = "idle" /\ drawn
    /\ cells = <<ScenarioA, ScenarioB>>
    /\ out = ScenarioOutput

\* C6: a call of draw that has returned Ok has written exactly one full
\* reset, as the last thing it wrote, the empty content included; while the
\* cells are being written no reset is written.
C6_OneResetLast ==
    /\ (pc = "idle" /\ drawn) =>
          /\ Len(out) >= 1
          /\ out[Len(out)] = SgrReset
          /\ \A i \in 1..(Len(out) - 1) : NoReset(i)
    /\ pc = "draw" => \A i \in 1..Len(out) : NoReset(i)

C6_Witness ==
    /\ pc = "idle" /\ drawn
    /\ cells = <<>>
    /\ out = <<SgrReset>>

\* What a call of draw writes for the cells cs from the k-th on, computed from
\* the content alone.
RECURSIVE OutputOf(_, _, _, _)
OutputOf(cs, k, lp, st) ==
    IF k > Len(cs) THEN <<>>
    ELSE CellCommands(cs[k], k, lp, st.fg, st.bg, st.underline_color, st.modifier)
         \o OutputOf(cs, k + 1, Position(cs[k].x, cs[k].y), cs[k])

\* C7: every call of draw starts from the neutral style and no position, on a
\* neutral terminal, so what it writes is determined by its own content: the
\* first cell always gets a position command, and a first cell whose
\* foreground is not Reset gets its foreground set, whatever was drawn before.
C7_DrawStartsNeutral ==
    /\ (pc = "draw" /\ cells = <<>>) =>
          /\ fg = Reset /\ bg = Reset /\ underline_color = Reset /\ modifier = {}
          /\ last_pos = None
          /\ out = <<>>
          /\ term = NeutralTerm
    /\ pc = "draw" => out = OutputOf(cells, 1, None, NeutralStyle)
    /\ (pc = "idle" /\ drawn) => out = Append(OutputOf(cells, 1, None, NeutralStyle), SgrReset)
    /\ Written >= 1 =>
          /\ out[1] = CursorPosition(from_zero_based(cells[1].x), from_zero_based(cells[1].y), 1)
          /\ cells[1].fg # Reset =>
                \E i \in Places("Attributes", 1) : out[i].foreground = IntoTermina(cells[1].fg)

\* A second call of draw, whose first cell is at (0,0) with a blue foreground.
C7_Witness ==
    /\ pc = "draw" /\ drawn
    /\ Len(cells) = 1
    /\ cells[1].x = 0 /\ cells[1].y = 0 /\ cells[1].fg = Named("Blue")
    /\ out[1] = CursorPosition(1, 1, 1)
    /\ \E i \in Places("Attributes", 1) : out[i].foreground = PaletteIndex(4)

(***************************************************************************)
(* The scrolling regions and the cursor and clear operations: claims C11   *)
(* and C12 (checked under SpecIO).                                         *)
(***************************************************************************)
ScrollCalls == {"scroll_region_up", "scroll_region_down"}
WriterCalls == {"show_cursor", "hide_cursor", "set_cursor_position", "clear", "clear_region"}

\* The call has returned Ok.
ReturnedOk == pc = "idle" /\ result.tag = "Ok"

\* C11: a call of scroll_region_up or scroll_region_down that returns Ok has
\* written exactly three commands, in this order: the margins of the region,
\* the scroll by the amount (up or down as called), the margins of the whole
\* screen; the last is written for every amount, 0 included, so the
\* terminal's margins are the whole screen after the call.
C11_ScrollRegionBracket ==
    (call \in ScrollCalls /\ ReturnedOk) =>
        /\ Len(out) = 3
        /\ out[1].cmd = "Margins" /\ out[1].top = args.region.start + 1
        /\ out[2] = (IF call = "scroll_region_up" THEN ScrollUp(args.amount)
                     ELSE ScrollDown(args.amount))
        /\ out[3] = SetTopAndBottomMargins(1, U16Max)
        /\ margins = FullScreen

\* scroll_region_down by 0 has returned.
C11_Witness ==
    /\ call = "scroll_region_down" /\ ReturnedOk
    /\ args.amount = 0
    /\ out[2] = ScrollDown(0)
    /\ out[3] = SetTopAndBottomMargins(1, U16Max)
    /\ margins = FullScreen

\* C12 (as stated): every call of show_cursor, hide_cursor,
\* set_cursor_position, clear, clear_region, scroll_region_up or
\* scroll_region_down that returns Ok has flushed the channel it wrote to,
\* after its last write.
C12_ControlOperationFlushes ==
    (call \in WriterCalls \cup ScrollCalls /\ ReturnedOk) =>
        /\ Len(out) >= 2
        /\ out[Len(out)] = Flush(out[1].chan)
        /\ \A i \in 1..(Len(out) - 1) : out[i].cmd # "Flush" /\ out[i].chan = out[1].chan

\* The commands of the call so far, the flushes left out.
Commands == SelectSeq(out, LAMBDA c : c.cmd # "Flush")

ClearCalls == {"clear", "clear_region"}

\* C22: a call of clear_region never writes more than one command, and one
\* that returns Ok has written exactly the erase command of its kind: All
\* the entire display, AfterCursor from the cursor to the end of the
\* display, BeforeCursor from the start of the display to the cursor,
\* CurrentLine the whole line, UntilNewLine from the cursor to the end of the
\* line.  clear() is clear_region(All).
C22_OneEraseCommandPerKind ==
    (call \in ClearCalls /\ pc = "idle") =>
        /\ call = "clear" => args = "All"
        /\ Len(Commands) <= 1
        /\ \A i \in 1..Len(Commands) :
            /\ Commands[i].chan = "writer"
            /\ args = "All" => Commands[i].cmd = "EraseDisplay"
            /\ args = "AfterCursor" => Commands[i].cmd = "EraseToEndOfDisplay"
            /\ args = "BeforeCursor" => Commands[i].cmd = "EraseToStartOfDisplay"
            /\ args = "CurrentLine" => Commands[i].cmd = "EraseLine"
            /\ args = "UntilNewLine" => Commands[i].cmd = "EraseToEndOfLine"
        /\ result.tag = "Ok" => Len(Commands) = 1

\* clear_region(UntilNewLine) has returned.
C22_Witness ==
    /\ call = "clear_region" /\ ReturnedOk
    /\ args = "UntilNewLine"
    /\ Len(out) = 2 /\ out[1].cmd = "EraseToEndOfLine"

\* C23: a call of set_cursor_position(x, y) with x, y below 65535 never
\* writes more than one command, and one that returns Ok has written exactly
\* one cursor-position command, whose column is x + 1 and whose line is
\* y + 1; every cursor-position command written by draw has the column and
\* the line of its cell, translated the same way.
C23_PositionIsOneBased ==
    /\ (call = "set_cursor_position" /\ pc = "idle"
            /\ args.x < U16Max /\ args.y < U16Max) =>
        /\ Len(Commands) <= 1
        /\ \A i \in 1..Len(Commands) :
            /\ Commands[i].cmd = "Position"
            /\ Commands[i].col = args.x + 1
            /\ Commands[i].line = args.y + 1
        /\ result.tag = "Ok" => Len(Commands) = 1
    /\ call = "draw" =>
        \A i \in 1..Len(out) :
            out[i].cmd = "Position" =>
                /\ out[i].col = cells[out[i].cell].x + 1
                /\ out[i].line = cells[out[i].cell].y + 1

\* set_cursor_position(65534, 1) has returned.
C23_Witness ==
    /\ call = "set_cursor_position" /\ ReturnedOk
    /\ args = Position(U16Max - 1, 1)
    /\ out[1].col = U16Max /\ out[1].line = 2

\* C26 (as stated): the margins that scroll_region_up and scroll_region_down
\* set first are exactly the rows region.start..region.end, the end left
\* out: the top margin is region.start + 1 and the bottom margin is
\* region.end (both 1-based), so the row of index region.end is outside
\* the margins.
C26_MarginsAreHalfOpenRange ==
    (call \in ScrollCalls /\ Len(out) >= 1) =>
        /\ out[1].cmd = "Margins"
        /\ out[1].top = args.region.start + 1
        /\ out[1].bottom = args.region.end

(***************************************************************************)
(* The two channels: claims C24, C27 (checked under SpecChan).             *)
(***************************************************************************)
Holds(chan) == \E i \in 1..Len(pending) : pending[i] = chan

\* C24: draw never flushes.  A call of draw that returns Ok has only
\* written to the writer, which still holds what it wrote; the writer has
\* passed everything on once a call of flush, or of another operation that
\* flushes the writer, has returned Ok.
C24_DrawNeverFlushes ==
    /\ call = "draw" => \A i \in 1..Len(out) : out[i].cmd # "Flush"
    /\ (call = "draw" /\ ReturnedOk) =>
          /\ out # <<>>
          /\ pending # <<>> /\ pending[Len(pending)] = "writer"
    /\ (call \in WriterCalls \cup {"flush"} /\ ReturnedOk) =>
          /\ out[Len(out)] = Flush("writer")
          /\ ~Holds("writer")

\* A draw of two cells has returned; the writer holds the frame.
C24_Witness ==
    /\ call = "draw" /\ ReturnedOk
    /\ Len(cells) = 2
    /\ pending = <<"writer">>

\* C27 (as stated): what the calls write reaches the terminal in the order
\* of the calls: no call passes bytes on while older bytes are still held
\* in the other channel.
C27_DeliveredInCallOrder == ~overtaken

InQuery == call = "get_cursor_position"

\* The places in `out` where an event was read.
Reads == {i \in 1..Len(out) : out[i].cmd = "Read"}

\* C13: get_cursor_position writes the request, then flushes the terminal,
\* and reads only after both: every read comes after the request and the
\* flush, nothing is written after the flush, and a call whose write or
\* flush failed has read nothing and left the input as it was.
C13_RequestFlushThenRead ==
    InQuery =>
        /\ pc = "gcp_flush" => out = <<RequestActivePositionReport>>
        /\ (pc = "gcp_read" \/ Reads # {}) =>
              /\ Len(out) >= 2
              /\ out[1] = RequestActivePositionReport
              /\ out[2] = Flush("terminal")
              /\ \A i \in 3..Len(out) : i \in Reads
        /\ (raised # None /\ raised.op \in {"write", "flush"}) =>
              /\ Reads = {}
              /\ discarded = <<>>
              /\ input = stream
              /\ out = IF raised.op = "write" THEN <<>> ELSE <<RequestActivePositionReport>>

C13_Witness ==
    /\ InQuery /\ ReturnedOk
    /\ out = <<RequestActivePositionReport, Flush("terminal"),
               Read(ActivePositionReport(3, 2))>>

\* C14: a call of get_cursor_position that returns Ok returns the zero-based
\* column and line (x = col - 1, y = line - 1) of the first position report
\* of the stream; the events before it were taken off the input and dropped,
\* so no later read gets them; the events after it are still waiting, in the
\* order they arrived.
C14_FirstReportZeroBased ==
    /\ (InQuery /\ pc = "gcp_read") =>
          /\ stream = discarded \o input
          /\ \A i \in 1..Len(discarded) : ~IsPositionReport(discarded[i])
    /\ (InQuery /\ ReturnedOk) =>
          LET n == Len(discarded) + 1
          IN  /\ n <= Len(stream)
              /\ IsPositionReport(stream[n])
              /\ \A i \in 1..(n - 1) : ~IsPositionReport(stream[i]) /\ discarded[i] = stream[i]
              /\ result = OkPosition(Position(stream[n].col - 1, stream[n].line - 1))
              /\ input = SubSeq(stream, n + 1, Len(stream))

\* A key, the report of line 3, column 2, and a key after it.
C14_Witness ==
    /\ InQuery /\ ReturnedOk
    /\ stream = <<KeyEvent, ActivePositionReport(3, 2), KeyEvent>>
    /\ discarded = <<KeyEvent>>
    /\ result = OkPosition(Position(1, 2))
    /\ input = <<KeyEvent>>

\* C15: get_cursor_position has no timeout: it returns Ok only when the last
\* event it read is a position report, it returns Err only with the error a
\* channel raised, and as long as neither happens it stays inside the read,
\* however many other events it has read.
C15_ReturnsOnlyOnReport ==
    InQuery =>
        /\ ReturnedOk <=> (Reads # {} /\ IsPositionReport(out[Len(out)].event))
        /\ result.tag = "Err" => (raised # None /\ result = Err(raised))
        /\ (raised = None /\ \A i \in Reads : ~IsPositionReport(out[i].event))
              => pc \in {"gcp_flush", "gcp_read"}

\* Still inside the read after as many other events as can arrive.
C15_Witness ==
    /\ InQuery /\ pc = "gcp_read"
    /\ Len(discarded) = MaxEvents
    /\ input = <<>>
    /\ result = None

\* The read of this call of get_cursor_position met the end of the input.
MetEndOfInput == InQuery /\ raised # None /\ raised.kind = "UnexpectedEof"

C17_FailureReturnedAtOnce ==
    /\ raised # None => (pc = "idle" /\ result = Err(raised))
    /\ result.tag = "Err" => raised # None
    /\ (call = "draw" /\ raised # None) =>
          LET full == OutputOf(cells, 1, None, NeutralStyle)
          IN  /\ Len(out) <= Len(full)
              /\ out = SubSeq(full, 1, Len(out))
              /\ raised.op = "write" /\ raised.chan = "writer"
    /\ (call \in WriterCalls /\ raised # None) =>
          \/ raised.op = "write" /\ out = <<>>
          \/ raised.op = "flush" /\ Len(out) = 1 /\ out[1].cmd # "Flush"
    /\ (call \in ScrollCalls /\ raised # None) =>
          /\ raised.op = "write"
          /\ Len(out) < 3
          /\ out = SubSeq(ScrollRegionCommands(args.region, [amount |-> args.amount,
                               cmd |-> IF call = "scroll_region_up" THEN "ScrollUp"
                                       ELSE "ScrollDown",
                               chan |-> "terminal", cell |-> 0]), 1, Len(out))
    /\ (InQuery /\ raised # None) =>
          \/ raised.op = "write" /\ out = <<>>
          \/ raised.op = "flush" /\ out = <<RequestActivePositionReport>>
          \/ raised.op = "read" /\ Len(out) >= 2 /\ out[Len(out)].cmd \in {"Flush", "Read"}

\* draw failed on the glyph of its first cell: the position and the style
\* written before it stay written, no reset follows.
C17_Witness ==
    /\ call = "draw" /\ pc = "idle"
    /\ result = Err(IoError("write", "writer", "BrokenPipe"))
    /\ Len(cells) = 1
    /\ Len(out) = 2
    /\ out[1].cmd = "Position" /\ out[2].cmd = "Attributes"

(***************************************************************************)
(* run_app: claims C29, C30 (checked under SpecDemo).                      *)
(***************************************************************************)
\* C29: every iteration draws first and then polls with the timeout
\* tick_rate minus the time since the last tick, 0 at least; the loop ticks
\* (and resets last_tick) exactly when a poll timed out; it is inside the
\* blocking read only right after a poll with the same filter reported an
\* event, with an event that passes the filter waiting; and it has returned
\* only Ok with should_quit set after handling an event, or an I/O error.
C29_DrawPollThenTickOrRead ==
    /\ lpc = "poll" =>
          /\ did = "draw"
          /\ timeout = (IF tick_rate >= (now - waited) - last_tick
                        THEN tick_rate - ((now - waited) - last_tick) ELSE 0)
          /\ waited <= timeout
    /\ lpc = "read" => (did = "poll" /\ \E i \in 1..Len(queue) : queue[i] # "escape")
    /\ did = "tick" => lpc = "draw"
    /\ last_tick = ticked_at
    /\ should_quit <=> (lpc = "returned" /\ returned = Ok)
    /\ lpc = "returned" =>
          \/ returned = Ok /\ did = "event"
          \/ returned.tag = "Err"
    /\ lpc # "returned" => returned = None

\* The poll timed out after a whole tick_rate with an escape sequence
\* waiting: the loop has ticked and is back at draw, the escape sequence
\* still unread.
C29_Witness ==
    /\ did = "tick" /\ lpc = "draw"
    /\ tick_rate = 3
    /\ last_tick = now /\ now = 3
    /\ queue = <<"escape">>

\* C30 (as stated): once tick_rate has elapsed since the last tick, the
\* application ticks before it handles another event: an iteration that
\* found the tick due when it computed its timeout (timeout 0) does not go
\* on to read an event.
C30_TickDueBeforeNextEvent ==
    lpc = "read" => timeout > 0

(***************************************************************************)
(* The custom-widget example: claim C31 (checked under SpecWidget).        *)
(***************************************************************************)
SelectedButtons == {i \in Buttons : button_states[i] = "Selected"}

\* C31: after any sequence of key and mouse events selected_button is 0, 1
\* or 2, at most one button is in state Selected, and a button in state
\* Selected is the one at index selected_button.
C31_SelectedIsTheSelectedButton ==
    /\ selected_button \in Buttons
    /\ Cardinality(SelectedButtons) <= 1
    /\ \A i \in SelectedButtons : i = selected_button

\* The first button was toggled to Active and the pointer moved on to the
\* second: an Active button beside the selected one.
C31_Witness ==
    /\ wevent # None /\ wevent.event = "Mouse"
    /\ selected_button = 1
    /\ button_states[0] = "Active"
    /\ button_states[1] = "Selected"
    /\ button_states[2] = "Active"

=============================================================================
